---- MODULE Spec2Model ----
(***************************************************************************)
(* Model of the research-and-verification engine of lesprgm/LDS:           *)
(*   - framework/fanout.py: gather_with_limit and map_with_limit, run on   *)
(*     the asyncio event loop (tasks, a semaphore, asyncio.gather);        *)
(*   - verification/tools.py: the four probes of a candidate;              *)
(*   - verification/agent.py: verify_candidate.                            *)
(* One action is one run of a coroutine from a suspension point to the     *)
(* next one (the event loop is cooperative and single threaded).           *)
(***************************************************************************)
EXTENDS Integers, Sequences, FiniteSets, TLC

VARIABLES
    variant,      \* "gather" (gather_with_limit) or "map" (map_with_limit)
    concurrency,  \* the concurrency argument
    delay_s,      \* the delay_s argument of map_with_limit (0 = no delay)
    ops,          \* the N operations: what each one does when it is awaited
    fpc,          \* position of the fan-out call: init, gather, returned, raised
    tpc,          \* position of each _run_one task
    semaphore,    \* asyncio.Semaphore._value
    waiters,      \* asyncio.Semaphore._waiters, FIFO
    results,      \* the pre-sized results list
    outer,        \* the future asyncio.gather returns to the awaiting caller
    fret,         \* what the fan-out call returned or raised
    overtaken,    \* history: some operation completed before one of lower index
    writes,       \* history: for each result slot, the tasks that wrote it, in order
    biz_website,  \* business["website"] or ""
    ddg_installed,\* whether `from duckduckgo_search import DDGS` succeeds
    web,          \* locals of check_business_website
    sp,           \* locals of the three search probes (tasks 2, 3, 4)
    vpc,          \* position of verify_candidate: idle, fanout, llm, done
    vout,         \* what verify_candidate returned (or raised)
    verr,         \* history: the exception caught by verify_candidate, "" if none
    reply,        \* history: the reasoning collaborator's reply
    wb,           \* locals and history of check_wayback_history
    pf            \* a call of a helper function: its arguments and its result

fanIn == <<variant, concurrency, delay_s, ops>>
taskVars == <<tpc, semaphore, waiters, results, outer, overtaken, writes>>
callVars == <<fpc, fret>>
envVars == <<biz_website, ddg_installed>>
probeVars == <<web, sp>>
verifyVars == <<vpc, vout, verr, reply>>
archiveVars == <<wb, pf>>

vars == <<fanIn, taskVars, callVars, envVars, probeVars, verifyVars, archiveVars>>

(* Bounds of the model. *)
MaxN == 3
MaxC == 2

None == [py |-> "None"]
Values == {None, [py |-> "a"], [py |-> "b"]}
Errors == {"E1", "E2"}
OpOutcomes == [kind : {"value"}, v : Values] \cup [kind : {"error"}, v : Errors]
ConcValues == (0 - 1) .. MaxC
DelayValues == {0, 1}

Min(S) == CHOOSE x \in S : \A y \in S : x <= y
Max(S) == CHOOSE x \in S : \A y \in S : x >= y

N == Len(ops)
Tasks == 1 .. N

Pending == [state |-> "pending", v |-> ""]
NoReturn == [kind |-> "none", v |-> <<>>]

(* A semaphore that never makes a task wait. *)
LockedNever == FALSE

(* asyncio.Semaphore.locked(): no permit left, or somebody queued before us. *)
Locked == semaphore = 0 \/ waiters # <<>>

(* A release that hands the permit to the first waiter without waking it. *)
ReleasedTpcNoWake(t) == t

(* asyncio.Semaphore.release(), run by task i when it leaves `async with`:   *)
(* the permit goes to the first waiter, which resumes inside the block, or  *)
(* back to the counter. t is the tpc that already holds task i's new place. *)
ReleasedTpc(t) ==
    IF waiters # <<>> THEN [t EXCEPT ![Head(waiters)] = "running"] ELSE t

ReleasedSemaphore == IF waiters # <<>> THEN semaphore ELSE semaphore + 1

ReleasedWaiters == IF waiters # <<>> THEN Tail(waiters) ELSE waiters

(* asyncio.gather's done callback for a task that ended without exception:  *)
(* the outer future gets its result once every child is done.               *)
GatherAfterDone(t) ==
    IF outer.state = "pending" /\ \A j \in Tasks : t[j] = "done"
    THEN [state |-> "result", v |-> ""]
    ELSE outer

(* asyncio.gather's done callback for a task that ended with an exception   *)
(* (return_exceptions is False): the first exception is set on the outer    *)
(* future at once; the other children are neither cancelled nor awaited.    *)
GatherAfterFailure(e) ==
    IF outer.state = "pending" THEN [state |-> "exception", v |-> e] ELSE outer

(* return [r for r in results if r is not None] *)
NotNone(r) == r # None
ReturnedList(res) == SelectSeq(res, NotNone)

(* The argument check with the comparison off by one. *)
InvalidConcurrencyOffByOne == concurrency < 0

(* if concurrency < 1: raise ValueError(...) *)
InvalidConcurrency == concurrency < 1

(* gather_with_limit / map_with_limit up to the await of asyncio.gather. *)
Call ==
    /\ fpc = "init"
    /\ IF InvalidConcurrency
       THEN /\ fpc' = "raised"
            /\ fret' = [kind |-> "error", v |-> "ValueError"]
            /\ UNCHANGED taskVars
       ELSE /\ fpc' = "gather"
            /\ semaphore' = concurrency
            /\ results' = [i \in Tasks |-> None]
            /\ tpc' = [i \in Tasks |-> "new"]
            /\ outer' = IF N = 0 THEN [state |-> "result", v |-> ""] ELSE Pending
            /\ UNCHANGED <<fret, waiters, overtaken, writes>>
    /\ UNCHANGED <<fanIn, envVars, archiveVars, probeVars, verifyVars>>

(* First step of task i (_run_one up to `async with semaphore`). The event  *)
(* loop runs the tasks gather created in creation order.                    *)
TaskStart(i) ==
    /\ fpc # "init"
    /\ tpc[i] = "new"
    /\ \A j \in Tasks : j < i => tpc[j] # "new"
    /\ IF Locked
       THEN /\ tpc' = [tpc EXCEPT ![i] = "waiting"]
            /\ waiters' = Append(waiters, i)
            /\ UNCHANGED semaphore
       ELSE /\ tpc' = [tpc EXCEPT ![i] = "running"]
            /\ semaphore' = semaphore - 1
            /\ UNCHANGED waiters
    /\ UNCHANGED <<results, outer, overtaken, writes>>
    /\ UNCHANGED <<fanIn, callVars, envVars, archiveVars, probeVars, verifyVars>>

(* asyncio.gather queued the first steps of all its tasks before the caller *)
(* suspended, and the loop runs its ready queue in order: whatever resumes  *)
(* after a real suspension (a sleep, a network answer, the caller's         *)
(* wake-up) runs after the first step of every task.                        *)
FirstStepsDone == \A j \in Tasks : tpc[j] # "new"

(* History: operation i completes while one of lower index has not. *)
Overtakes(i) == \E j \in Tasks : j < i /\ tpc[j] \in {"new", "waiting", "running"}

(* Task i leaves `async with semaphore` normally and ends. *)
TaskEnd(i) ==
    /\ tpc' = ReleasedTpc([tpc EXCEPT ![i] = "done"])
    /\ semaphore' = ReleasedSemaphore
    /\ waiters' = ReleasedWaiters
    /\ outer' = GatherAfterDone([tpc EXCEPT ![i] = "done"])

(* One slot shared by all the tasks. *)
SlotShared(i) == 1

(* The slot of task i: the idx that _run_one(idx, ...) was created with. *)
Slot(i) == i

(* Results appended as the operations complete, instead of stored by index. *)
StoredInCompletionOrder(i, v) ==
    [results EXCEPT ![Min({j \in 1 .. Len(results) : results[j] = None})] = v]

(* The slot the value of operation i is stored in: results[idx] = ... *)
Stored(i, v) == [results EXCEPT ![Slot(i)] = v]

(* The delay placed after the `async with` block: the permit is released   *)
(* before the sleep begins.                                                *)
ReturnedDelayOutside(i, v) ==
    /\ results' = Stored(i, v)
    /\ writes' = [writes EXCEPT ![Slot(i)] = Append(@, i)]
    /\ overtaken' = (overtaken \/ Overtakes(i))
    /\ IF variant = "map" /\ delay_s # 0
       THEN /\ tpc' = ReleasedTpc([tpc EXCEPT ![i] = "sleeping"])
            /\ semaphore' = ReleasedSemaphore
            /\ waiters' = ReleasedWaiters
            /\ UNCHANGED outer
       ELSE TaskEnd(i)

(* The operation of task i returns value v: results[idx] = await ...,      *)
(* then (map_with_limit with a delay) asyncio.sleep inside the block.      *)
Returned(i, v) ==
    /\ results' = Stored(i, v)
    /\ writes' = [writes EXCEPT ![Slot(i)] = Append(@, i)]
    /\ overtaken' = (overtaken \/ Overtakes(i))
    /\ IF variant = "map" /\ delay_s # 0
       THEN /\ tpc' = [tpc EXCEPT ![i] = "sleeping"]
            /\ UNCHANGED <<semaphore, waiters, outer>>
       ELSE TaskEnd(i)

(* A task that swallows the exception of its operation and ends normally. *)
RaisedSwallowed(i, e) ==
    /\ tpc' = ReleasedTpc([tpc EXCEPT ![i] = "done"])
    /\ semaphore' = ReleasedSemaphore
    /\ waiters' = ReleasedWaiters
    /\ outer' = GatherAfterDone([tpc EXCEPT ![i] = "done"])
    /\ overtaken' = (overtaken \/ Overtakes(i))
    /\ UNCHANGED <<results, writes>>

(* The operation of task i raises e: the exception leaves `async with`,     *)
(* which releases the permit, and ends the task.                            *)
Raised(i, e) ==
    /\ tpc' = ReleasedTpc([tpc EXCEPT ![i] = "failed"])
    /\ semaphore' = ReleasedSemaphore
    /\ waiters' = ReleasedWaiters
    /\ outer' = GatherAfterFailure(e)
    /\ overtaken' = (overtaken \/ Overtakes(i))
    /\ UNCHANGED <<results, writes>>

OpReturn(i) ==
    /\ tpc[i] = "running"
    /\ ops[i].kind = "value"
    /\ Returned(i, ops[i].v)
    /\ UNCHANGED <<fanIn, callVars, envVars, archiveVars, probeVars, verifyVars>>

OpRaise(i) ==
    /\ tpc[i] = "running"
    /\ ops[i].kind = "error"
    /\ Raised(i, ops[i].v)
    /\ UNCHANGED <<fanIn, callVars, envVars, archiveVars, probeVars, verifyVars>>

(* map_with_limit: await asyncio.sleep(delay_s) is over. *)
SleepDone(i) ==
    /\ tpc[i] = "sleeping"
    /\ FirstStepsDone
    /\ TaskEnd(i)
    /\ UNCHANGED <<results, overtaken, writes>>
    /\ UNCHANGED <<fanIn, callVars, envVars, archiveVars, probeVars, verifyVars>>

(* The caller of asyncio.gather resumes: its wake-up was queued behind the  *)
(* first steps of all the tasks.                                            *)
Resume ==
    /\ fpc = "gather"
    /\ outer.state # "pending"
    /\ FirstStepsDone
    /\ IF outer.state = "exception"
       THEN /\ fpc' = "raised"
            /\ fret' = [kind |-> "error", v |-> outer.v]
       ELSE /\ fpc' = "returned"
            /\ fret' = [kind |-> "list", v |-> ReturnedList(results)]
    /\ UNCHANGED <<fanIn, taskVars, envVars, archiveVars, probeVars, verifyVars>>

(* ------------------------------------------------------------------------ *)
(* Values of the variables of a part of the program that is not running.    *)
NoError == [type |-> "None", status |-> 0]
NoResponse == [kind |-> "none", status |-> 0, exc |-> ""]
WebIdle == [pc |-> "idle", attempt |-> 0, last_error |-> NoError,
            requests |-> <<>>, sleeps |-> <<>>, ok |-> FALSE,
            last |-> NoResponse]
(* wcalls, wfails, wpauses, wout and wret are the history of the probe's     *)
(* latest call of _ddg_search_with_retry: the ddg.text calls made, those    *)
(* that failed, the 2 s sleeps begun, how the wrapper ended and the number  *)
(* of hits it returned.                                                     *)
SearchIdle == [pc |-> "idle", attempt |-> 0, q |-> 0, nq |-> 0, texts |-> 0,
               calls |-> 0, ok |-> FALSE,
               wcalls |-> 0, wfails |-> 0, wpauses |-> 0, wout |-> "none",
               wret |-> 0]
NoOut == [kind |-> "none", result |-> <<>>]
NoFinding == [kind |-> "none", finding |-> <<>>]
PfIdle == [pc |-> "idle", f |-> "", arg |-> <<>>, out |-> <<>>]
WbIdle == [pc |-> "idle", url |-> <<>>, domain |-> <<>>, rows |-> <<>>,
           earliest |-> 0, k |-> 0, samples |-> <<>>, skipped |-> 0,
           caught |-> "", out |-> NoFinding, continuity |-> <<0, 0>>,
           index |-> [kind |-> "none", n |-> 0]]
NoReply == [kind |-> "none", text |-> <<>>, doc |-> <<>>]

FanOutIdle ==
    /\ fpc = "init"
    /\ tpc = [i \in 1 .. Len(ops) |-> "none"]
    /\ semaphore = 0
    /\ waiters = <<>>
    /\ results = <<>>
    /\ outer = Pending
    /\ fret = NoReturn
    /\ overtaken = FALSE
    /\ writes = [i \in 1 .. Len(ops) |-> <<>>]

(* A call of gather_with_limit or map_with_limit on N operations. *)
Init ==
    /\ variant \in {"gather", "map"}
    /\ concurrency \in ConcValues
    /\ delay_s \in IF variant = "map" THEN DelayValues ELSE {0}
    /\ ops \in UNION {[1 .. k -> OpOutcomes] : k \in 0 .. MaxN}
    /\ FanOutIdle
    /\ biz_website = ""
    /\ ddg_installed = TRUE
    /\ web = WebIdle
    /\ sp = [p \in 2 .. 4 |-> SearchIdle]
    /\ vpc = "idle"
    /\ vout = NoOut
    /\ verr = ""
    /\ reply = NoReply
    /\ wb = WbIdle
    /\ pf = PfIdle

Next ==
    \/ Call
    \/ \E i \in Tasks : TaskStart(i)
    \/ \E i \in Tasks : OpReturn(i)
    \/ \E i \in Tasks : OpRaise(i)
    \/ \E i \in Tasks : SleepDone(i)
    \/ Resume

Spec == Init /\ [][Next]_vars

(* The event loop runs whatever is ready, and every operation that is       *)
(* awaited completes: a step that can be taken is taken.                    *)
SpecLive == Init /\ [][Next]_vars /\ WF_vars(Next)

(* ------------------------------------------------------------------------ *)
(* verification/tools.py: the probes. Each probe is the operation of one    *)
(* task of verify_candidate's fan-out: 1 check_business_website,            *)
(* 2 search_platform_presence, 3 search_general_context,                    *)
(* 4 check_review_presence.                                                  *)

ProbeNames == <<"business_website", "platform_search", "general_search",
                "review_search">>
WebTask == 1
PlatformTask == 2
SearchTasks == {2, 3, 4}

(* SubAgentFinding(source=..., url=..., finding=..., supports_eligibility=   *)
(* None, is_error=..., error_detail=...): the probes never set              *)
(* supports_eligibility to anything but None.                               *)
Finding(source, url, text, is_error, detail) ==
    [source |-> source, url |-> url, finding |-> text,
     supports_eligibility |-> "None", is_error |-> is_error,
     error_detail |-> detail]

_RETRYABLE_STATUS == {429, 500, 502, 503, 504}

(* An except clause that retries after every exception of httpx. *)
RetryableExceptionsAll ==
    {"ConnectError", "ReadTimeout", "ConnectTimeout", "UnsupportedProtocol"}

(* except (httpx.ConnectError, httpx.ReadTimeout, httpx.ConnectTimeout) *)
RetryableExceptions == {"ConnectError", "ReadTimeout", "ConnectTimeout"}

(* What the site can answer to one GET: a status with a body that extracts  *)
(* to less than 50 characters or to more, or an exception of httpx.         *)
HttpStatuses == {200, 403, 404, 429, 503}
WebResponses ==
    [kind : {"status"}, status : HttpStatuses, exc : {""}, body : {"short", "long"}]
    \cup [kind : {"exception"}, status : {0},
          exc : {"ConnectError", "ReadTimeout", "UnsupportedProtocol"},
          body : {""}]

(* A fetcher that never rotates its headers. *)
HeadersForPrimaryOnly(attempt) == "_HEADERS"

(* headers = _HEADERS if attempt < 2 else _ALT_HEADERS *)
HeadersFor(attempt) == IF attempt < 2 THEN "_HEADERS" ELSE "_ALT_HEADERS"

(* for attempt in range(3) *)
WebAttempts == 3

(* A backoff that does not grow with the attempt. *)
BackoffFlat(attempt) == 15

(* asyncio.sleep(1.5 * (attempt + 1)), in tenths of a second *)
Backoff(attempt) == 15 * (attempt + 1)

(* asyncio.sleep(1) after a 403 on attempt 0, in tenths of a second *)
ForbiddenDelay == 10

(* The locals of a probe end with its coroutine; what stays is history:    *)
(* the requests sent, the sleeps taken, the last answer received, whether   *)
(* an external call succeeded.                                              *)
WebDone(w) == [w EXCEPT !.pc = "done", !.attempt = 0, !.last_error = NoError]
SearchDone(s) == [s EXCEPT !.pc = "done", !.attempt = 0, !.q = 0, !.nq = 0,
                           !.texts = 0]

WebErrorFinding(last_error) ==
    Finding("business_website", biz_website,
            "Business website was unreachable at time of verification",
            TRUE, last_error)

(* A probe that returns nothing when there is no website. *)
NoWebsiteNothing == None

(* if not website_url: return SubAgentFinding(...) *)
NoWebsiteFinding ==
    Finding("business_website", "None", "No website available for this business",
            FALSE, NoError)

(* A check that takes every URL for a URL to fetch. *)
HasNoUrlNever == FALSE

(* if not website_url *)
HasNoUrl == biz_website = ""

(* A loop that makes one attempt more than range(3). *)
LoopHasNextOneMore(attempt) == attempt < WebAttempts

(* for attempt in range(3): there is an attempt after this one. *)
LoopHasNext(attempt) == attempt + 1 < WebAttempts

(* A retry branch that leaves last_error as the earlier attempt set it. *)
StatusErrorStale(status) == web.last_error

(* last_error = f"HTTP {resp.status_code}" *)
StatusError(status) == [type |-> "HTTP", status |-> status]

(* A 403 that is retried on every attempt. *)
ForbiddenRetryAlways(status, attempt) == status = 403

(* if resp.status_code == 403 and attempt == 0 *)
ForbiddenRetry(status, attempt) == status = 403 /\ attempt = 0

(* A raise_for_status that lets client errors through. *)
RaisesForStatusServerOnly(status) == status >= 500

(* resp.raise_for_status() raises HTTPStatusError. *)
RaisesForStatus(status) == status >= 400

(* check_business_website up to its first await. *)
WebBegin ==
    /\ tpc[WebTask] = "running"
    /\ ops[WebTask].kind = "probe"
    /\ web.pc = "begin"
    /\ IF HasNoUrl
       THEN /\ web' = WebDone(web)
            /\ Returned(WebTask, NoWebsiteFinding)
       ELSE /\ web' = [web EXCEPT !.pc = "get", !.attempt = 0,
                                  !.requests = <<HeadersFor(0)>>]
            /\ UNCHANGED taskVars
    /\ UNCHANGED <<fanIn, callVars, envVars, archiveVars, sp, verifyVars>>

(* The answer to the GET of the current attempt arrives and the loop body   *)
(* runs to its next await or to the return.                                 *)
WebGet ==
    /\ tpc[WebTask] = "running"
    /\ web.pc = "get"
    /\ FirstStepsDone
    /\ \E r \in WebResponses :
        LET w == [web EXCEPT !.last = [kind |-> r.kind, status |-> r.status,
                                       exc |-> r.exc]]
        IN
        IF r.kind = "status" /\ r.status \in _RETRYABLE_STATUS
        THEN /\ web' = [w EXCEPT !.pc = "sleep",
                            !.last_error = StatusError(r.status),
                            !.sleeps = Append(@, Backoff(web.attempt))]
             /\ UNCHANGED taskVars
        ELSE IF r.kind = "status" /\ ForbiddenRetry(r.status, web.attempt)
        THEN /\ web' = [w EXCEPT !.pc = "sleep",
                            !.last_error = [type |-> "HTTP 403 Forbidden", status |-> 403],
                            !.sleeps = Append(@, ForbiddenDelay)]
             /\ UNCHANGED taskVars
        ELSE IF r.kind = "status" /\ RaisesForStatus(r.status)
        THEN \* resp.raise_for_status() raises; except Exception: break
             /\ web' = WebDone(w)
             /\ Returned(WebTask,
                         WebErrorFinding([type |-> "HTTPStatusError", status |-> r.status]))
        ELSE IF r.kind = "status"
        THEN /\ web' = WebDone([w EXCEPT !.ok = TRUE])
             /\ Returned(WebTask,
                         Finding("business_website", biz_website,
                                 IF r.body = "short"
                                 THEN "Website returned minimal content"
                                 ELSE "Website content",
                                 FALSE, NoError))
        ELSE IF r.exc \in RetryableExceptions
        THEN /\ web' = [w EXCEPT !.pc = "sleep",
                            !.last_error = [type |-> r.exc, status |-> 0],
                            !.sleeps = Append(@, Backoff(web.attempt))]
             /\ UNCHANGED taskVars
        ELSE \* except Exception: break
             /\ web' = WebDone(w)
             /\ Returned(WebTask, WebErrorFinding([type |-> r.exc, status |-> 0]))
    /\ UNCHANGED <<fanIn, callVars, envVars, archiveVars, sp, verifyVars>>

(* The backoff sleep is over: `continue` with the next attempt, or the loop *)
(* is exhausted and the error Finding is returned.                          *)
WebWake ==
    /\ tpc[WebTask] = "running"
    /\ web.pc = "sleep"
    /\ FirstStepsDone
    /\ IF LoopHasNext(web.attempt)
       THEN /\ web' = [web EXCEPT !.pc = "get", !.attempt = @ + 1,
                                  !.requests = Append(@, HeadersFor(web.attempt + 1))]
            /\ UNCHANGED taskVars
       ELSE /\ web' = WebDone(web)
            /\ Returned(WebTask, WebErrorFinding(web.last_error))
    /\ UNCHANGED <<fanIn, callVars, envVars, archiveVars, sp, verifyVars>>

(* ---- the search probes ---- *)

(* _ddg_search_with_retry(..., attempts=2) *)
DdgAttempts == 2

(* How many hits one ddg.text call returns. *)
HitCounts == {0, 1}

(* The keywords of the if/elif chain of search_platform_presence found in   *)
(* the settlement name or the defendant.                                    *)
SettlementKeywords ==
    {{}, {"grubhub"}, {"doordash"}, {"discover"}, {"payment card"},
     {"caviar", "discover"}}

(* queries[:2] of search_platform_presence: the number of queries run. *)
PlatformQueries(kw) ==
    LET queries ==
            IF kw \cap {"grubhub", "seamless"} # {} THEN <<"grubhub", "site:grubhub.com">>
            ELSE IF kw \cap {"doordash", "caviar"} # {} THEN <<"doordash">>
            ELSE IF "discover" \in kw THEN <<"accepts discover", "discover card">>
            ELSE IF kw \cap {"payment card", "interchange"} # {} THEN <<"payment processing">>
            ELSE <<"defendant">>
    IN  IF Len(queries) < 2 THEN Len(queries) ELSE 2

NoDetail == NoError
SearchDetail(t) == [type |-> t, status |-> 0]

NoResultsTexts == <<"", "No platform presence found", "No web results found",
                    "No review listings found">>

(* The Finding of each search probe for an empty result list. *)
NoResultsFinding(p) ==
    Finding(ProbeNames[p], "None", NoResultsTexts[p], FALSE, NoDetail)

ResultsFinding(p) ==
    Finding(ProbeNames[p], "None", "Search results", FALSE, NoDetail)

(* A probe that treats the missing package as a search without results. *)
ImportErrorAsNoResults(p) == NoResultsFinding(p)

(* except ImportError of each probe. *)
ImportErrorFinding(p) ==
    IF p = PlatformTask
    THEN Finding(ProbeNames[p], "None", "duckduckgo-search package not available",
                 FALSE, NoDetail)
    ELSE Finding(ProbeNames[p], "None", "Search package not available",
                 TRUE, SearchDetail("duckduckgo-search package not installed"))

(* except Exception of search_general_context and check_review_presence. *)
UnavailableFinding(p, e) ==
    Finding(ProbeNames[p], "None", "Search was unavailable at time of verification",
            TRUE, SearchDetail(e))

(* _ddg_search_with_retry has returned k hits to probe p, whose locals are s. *)
WrapperReturned(p, s, k) ==
    IF p = PlatformTask
    THEN \* results_text.append(...) for each hit; await asyncio.sleep(1)
         /\ sp' = [sp EXCEPT ![p] = [s EXCEPT !.pc = "pause", !.texts = @ + k]]
         /\ UNCHANGED taskVars
    ELSE /\ sp' = [sp EXCEPT ![p] = SearchDone(s)]
         /\ Returned(p, IF k = 0 THEN NoResultsFinding(p) ELSE ResultsFinding(p))

(* An exception e other than ImportError leaves _ddg_search_with_retry. *)
WrapperRaised(p, s, e) ==
    /\ sp' = [sp EXCEPT ![p] = SearchDone(s)]
    /\ IF p = PlatformTask
       THEN Raised(p, e)
       ELSE Returned(p, UnavailableFinding(p, e))

(* A wrapper that sleeps after every failed attempt. *)
PauseAfterEveryFailure(attempt) == TRUE

(* if attempt < attempts - 1: await asyncio.sleep(2) *)
PauseAfterFailure(attempt) == attempt < DdgAttempts - 1

(* The loop `for attempt in range(attempts)` is over: logger.warning(...),  *)
(* return [].                                                               *)
DdgExhausted(p, s) == WrapperReturned(p, [s EXCEPT !.wout = "exhausted", !.wret = 0], 0)

(* One pass of the retry loop: ddg.text(...) is a blocking call, it returns *)
(* hits or raises; after a failure that is not the last one the wrapper     *)
(* sleeps 2 seconds, after the last one the loop is over.                   *)
DdgText(p, s) ==
    \/ \E k \in HitCounts :
          WrapperReturned(p, [s EXCEPT !.calls = @ + 1, !.ok = TRUE,
                                       !.wcalls = @ + 1, !.wout = "hits",
                                       !.wret = k], k)
    \/ LET f == [s EXCEPT !.calls = @ + 1, !.wcalls = @ + 1, !.wfails = @ + 1] IN
       IF PauseAfterFailure(s.attempt)
       THEN /\ sp' = [sp EXCEPT ![p] = [f EXCEPT !.pc = "sleep", !.wpauses = @ + 1]]
            /\ UNCHANGED taskVars
       ELSE DdgExhausted(p, f)

(* _ddg_search_with_retry from its entry: the import, DDGS(), and the first *)
(* pass of the loop.                                                        *)
DdgEnter(p, s) ==
    LET w == [s EXCEPT !.attempt = 0, !.wcalls = 0, !.wfails = 0,
                       !.wpauses = 0, !.wout = "running", !.wret = 0]
    IN
    IF ~ddg_installed
    THEN /\ sp' = [sp EXCEPT ![p] = SearchDone([w EXCEPT !.wout = "ImportError"])]
         /\ Returned(p, ImportErrorFinding(p))
    ELSE \/ WrapperRaised(p, [w EXCEPT !.wout = "DDGSError"], "DDGSError")
         \/ DdgText(p, w)

(* A search probe up to its first await (or its return). *)
SearchBegin(p) ==
    /\ tpc[p] = "running"
    /\ ops[p].kind = "probe"
    /\ sp[p].pc = "begin"
    /\ \E kw \in (IF p = PlatformTask THEN SettlementKeywords ELSE {{}}) :
          DdgEnter(p, [sp[p] EXCEPT !.q = 1,
                           !.nq = IF p = PlatformTask THEN PlatformQueries(kw) ELSE 1])
    /\ UNCHANGED <<fanIn, callVars, envVars, archiveVars, web, verifyVars>>

(* The 2 second sleep of the wrapper is over: the next pass of the loop. *)
SearchWake(p) ==
    /\ tpc[p] = "running"
    /\ sp[p].pc = "sleep"
    /\ FirstStepsDone
    /\ IF sp[p].attempt + 1 < DdgAttempts
       THEN DdgText(p, [sp[p] EXCEPT !.attempt = @ + 1])
       ELSE DdgExhausted(p, sp[p])
    /\ UNCHANGED <<fanIn, callVars, envVars, archiveVars, web, verifyVars>>

(* search_platform_presence: the 1 second sleep after a query is over; the  *)
(* next query, or the Finding.                                              *)
PlatformPauseDone ==
    /\ tpc[PlatformTask] = "running"
    /\ sp[PlatformTask].pc = "pause"
    /\ FirstStepsDone
    /\ LET s == sp[PlatformTask] IN
       IF s.q < s.nq
       THEN DdgEnter(PlatformTask, [s EXCEPT !.q = @ + 1])
       ELSE /\ sp' = [sp EXCEPT ![PlatformTask] = SearchDone(s)]
            /\ Returned(PlatformTask,
                        IF s.texts = 0 THEN NoResultsFinding(PlatformTask)
                        ELSE ResultsFinding(PlatformTask))
    /\ UNCHANGED <<fanIn, callVars, envVars, archiveVars, web, verifyVars>>

(* A caller that goes on while its fan-out is still running. *)
ResolvedEarly == fpc # "init"

(* `await gather_with_limit(...)` is over: the call returned or raised. *)
Resolved == fpc \in {"returned", "raised"}

(* ------------------------------------------------------------------------ *)
(* llm/structured_json.py and verification/agent.py.                        *)

(* A reply is a text and the JSON document the text carries. The text is a  *)
(* sequence of tokens: "F" a ``` fence, "T" a language tag, "NL" a newline, *)
(* "J" the JSON document, "X" prose that is not JSON.                       *)
RECURSIVE DropLeading(_, _)
DropLeading(t, toks) ==
    IF t # <<>> /\ Head(t) \in toks THEN DropLeading(Tail(t), toks) ELSE t

RECURSIVE DropTrailing(_, _)
DropTrailing(t, toks) ==
    IF t # <<>> /\ t[Len(t)] \in toks
    THEN DropTrailing(SubSeq(t, 1, Len(t) - 1), toks)
    ELSE t

(* str.strip() and str.strip("`") *)
Strip(t, toks) == DropTrailing(DropLeading(t, toks), toks)

NewlinePositions(t) == {i \in 1 .. Len(t) : t[i] = "NL"}

(* _strip_code_fences *)
StripCodeFences(text) ==
    LET t == Strip(text, {"NL"}) IN
    IF t = <<>> \/ Head(t) # "F" THEN t
    ELSE IF Cardinality(NewlinePositions(t)) >= 2
         THEN \* "\n".join(lines[1:-1]).strip() for len(lines) >= 3
              Strip(SubSeq(t, Min(NewlinePositions(t)) + 1,
                              Max(NewlinePositions(t)) - 1), {"NL"})
         ELSE Strip(Strip(t, {"F"}), {"NL"})

(* json.loads: the text must be the JSON document and nothing else. *)
JsonLoads(t, doc) ==
    IF t = <<"J">> THEN [kind |-> "ok", v |-> doc]
    ELSE [kind |-> "error", v |-> "JSONDecodeError"]

OwnEvidence ==
    <<[source |-> "llm", url |-> "None", finding |-> "invented",
       supports_eligibility |-> "True", is_error |-> FALSE,
       error_detail |-> NoError]>>
OwnChecks == <<"llm_check">>

(* A validation that replaces what the reply says by the field defaults. *)
ValidateModelDefaults(doc) ==
    IF doc.shape # "object"
    THEN [kind |-> "error", v |-> "AttributeError"]
    ELSE IF doc.verdict = "absent" \/ doc.conf_kind = "bad" \/ doc.evidence = "bad"
    THEN [kind |-> "error", v |-> "ValidationError"]
    ELSE [kind |-> "ok",
          v |-> [verdict |-> doc.verdict, confidence |-> 50, is_chain |-> FALSE,
                 chain_reason |-> "None", evidence |-> <<>>, reasoning |-> <<>>,
                 checks_performed |-> <<>>]]

(* model(data) of ainvoke_pydantic, after the explicit nulls are dropped: a  *)
(* field that is absent takes its default, verdict is required, confidence  *)
(* must be an int (of any size), evidence a list of findings.               *)
ValidateModel(doc) ==
    IF doc.shape # "object"
    THEN [kind |-> "error", v |-> "AttributeError"]   \* data.items()
    ELSE IF doc.verdict = "absent" \/ doc.conf_kind = "bad" \/ doc.evidence = "bad"
    THEN [kind |-> "error", v |-> "ValidationError"]
    ELSE [kind |-> "ok",
          v |-> [verdict |-> doc.verdict,
                 confidence |-> IF doc.conf_kind = "absent" THEN 50 ELSE doc.confidence,
                 is_chain |-> (doc.is_chain = "true"),
                 chain_reason |-> IF doc.chain_reason = "absent" THEN "None"
                                  ELSE doc.chain_reason,
                 evidence |-> IF doc.evidence = "own" THEN OwnEvidence ELSE <<>>,
                 reasoning |-> IF doc.reasoning = "absent" THEN <<>>
                               ELSE <<doc.reasoning>>,
                 checks_performed |-> IF doc.checks = "own" THEN OwnChecks ELSE <<>>]]

(* ainvoke_pydantic on a reply that arrived. *)
ParseReply(r) ==
    LET data == JsonLoads(StripCodeFences(r.text), r.doc) IN
    IF data.kind = "error" THEN data ELSE ValidateModel(data.v)

(* A reply's _with_context that keeps what the reply itself supplied. *)
WithContextKeepsReply(result, findings, checks) ==
    [result EXCEPT !.evidence = IF @ = <<>> THEN findings ELSE @,
                   !.checks_performed = IF @ = <<>> THEN checks ELSE @]

(* _with_context: result.model_copy(update={evidence, checks_performed}) *)
WithContext(result, findings, checks) ==
    [result EXCEPT !.evidence = findings, !.checks_performed = checks]

(* The VerificationResult built in `except Exception as e`. *)
Fallback(e) ==
    [verdict |-> "unlikely", confidence |-> 0, is_chain |-> FALSE,
     chain_reason |-> "None", evidence |-> <<>>,
     reasoning |-> <<"Verification failed: ", e>>,
     checks_performed |-> ProbeNames]

(* A verify_candidate without the try/except around its pipeline. *)
ExceptNothing(e) == [kind |-> "raised", result |-> e]

(* except Exception as e: ... return VerificationResult(...) *)
ExceptHandler(e) == [kind |-> "returned", result |-> Fallback(e)]

Caught(e) ==
    /\ vpc' = "done"
    /\ verr' = e
    /\ vout' = ExceptHandler(e)

ObjectDoc(verdict, conf_kind, confidence, extras) ==
    [shape |-> "object", verdict |-> verdict, conf_kind |-> conf_kind,
     confidence |-> confidence, is_chain |-> "true", chain_reason |-> "absent",
     reasoning |-> "ok", evidence |-> extras, checks |-> extras]

Docs ==
    { [ObjectDoc("absent", "absent", 0, "absent") EXCEPT !.shape = "list"],
      ObjectDoc("absent", "int", 70, "absent"),
      ObjectDoc("likely", "int", 70, "absent"),
      [ObjectDoc("likely", "int", 70, "own")
          EXCEPT !.is_chain = "false", !.chain_reason = "franchise",
                 !.reasoning = "why"],
      ObjectDoc("verified", "int", 150, "absent"),
      ObjectDoc("likely", "absent", 0, "absent") }

(* Replies that carry a JSON document, bare or fenced. *)
JsonTexts ==
    { <<"J">>,
      <<"F", "T", "NL", "J", "NL", "F">>,
      <<"F", "T", "NL", "J", "F">> }

(* What the collaborator can do: answer a document, answer prose, raise. *)
Replies ==
    [kind : {"text"}, text : JsonTexts, doc : Docs]
    \cup {[kind |-> "text", text |-> <<"X">>, doc |-> <<>>],
          [kind |-> "raise", text |-> <<>>, doc |-> <<>>]}

(* gather_with_limit(tasks, concurrency=4) *)
ProbeConcurrency == 4

(* verify_candidate after `await gather_with_limit(...)`: the digest, the   *)
(* prompt, the client (get_llm_client() when none was passed, which may     *)
(* raise), up to `await llm_client.ainvoke(prompt)`.                        *)
VerifyAfterFanout ==
    /\ vpc = "fanout"
    /\ Resolved
    /\ IF fpc = "raised"
       THEN Caught(fret.v) /\ UNCHANGED reply
       ELSE \/ Caught("ClientError") /\ UNCHANGED reply
            \/ vpc' = "llm" /\ UNCHANGED <<vout, verr, reply>>
    /\ UNCHANGED <<fanIn, taskVars, callVars, envVars, archiveVars, probeVars>>

(* The reasoning collaborator answers, or its call raises. *)
LlmReply ==
    /\ vpc = "llm"
    /\ \E r \in Replies :
        /\ reply' = r
        /\ IF r.kind = "raise"
           THEN Caught("LLMError")
           ELSE LET parsed == ParseReply(r) IN
                IF parsed.kind = "error"
                THEN Caught(parsed.v)
                ELSE /\ vpc' = "done"
                     /\ verr' = ""
                     /\ vout' = [kind |-> "returned",
                                 result |-> WithContext(parsed.v, fret.v, ProbeNames)]
    /\ UNCHANGED <<fanIn, taskVars, callVars, envVars, archiveVars, probeVars>>

(* verify_candidate(business, settlement): the four probe coroutines are    *)
(* built and gather_with_limit is about to be called.                       *)
InitVerify ==
    /\ variant = "gather"
    /\ concurrency = ProbeConcurrency
    /\ delay_s = 0
    /\ ops = [i \in 1 .. 4 |-> [kind |-> "probe", v |-> ProbeNames[i]]]
    /\ FanOutIdle
    /\ biz_website \in {"", "https://example.com"}
    /\ ddg_installed \in BOOLEAN
    /\ web = [WebIdle EXCEPT !.pc = "begin"]
    /\ sp = [p \in 2 .. 4 |-> [SearchIdle EXCEPT !.pc = "begin"]]
    /\ vpc = "fanout"
    /\ vout = NoOut
    /\ verr = ""
    /\ reply = NoReply
    /\ wb = WbIdle
    /\ pf = PfIdle

NextVerify ==
    \/ Call
    \/ \E i \in Tasks : TaskStart(i)
    \/ Resume
    \/ WebBegin
    \/ WebGet
    \/ WebWake
    \/ \E p \in SearchTasks : SearchBegin(p)
    \/ \E p \in SearchTasks : SearchWake(p)
    \/ PlatformPauseDone
    \/ VerifyAfterFanout
    \/ LlmReply

SpecVerify == InitVerify /\ [][NextVerify]_vars

(* ------------------------------------------------------------------------ *)
(* check_business_website(website_url, settlement_context) awaited on its   *)
(* own: the fan-out of this one awaitable.                                  *)
InitFetch ==
    /\ variant = "gather"
    /\ concurrency \in 1 .. MaxC
    /\ delay_s = 0
    /\ ops = <<[kind |-> "probe", v |-> ProbeNames[WebTask]]>>
    /\ FanOutIdle
    /\ biz_website \in {"", "https://example.com"}
    /\ ddg_installed = TRUE
    /\ web = [WebIdle EXCEPT !.pc = "begin"]
    /\ sp = [p \in 2 .. 4 |-> SearchIdle]
    /\ vpc = "idle"
    /\ vout = NoOut
    /\ verr = ""
    /\ reply = NoReply
    /\ wb = WbIdle
    /\ pf = PfIdle

NextFetch ==
    \/ Call
    \/ \E i \in Tasks : TaskStart(i)
    \/ Resume
    \/ WebBegin
    \/ WebGet
    \/ WebWake

(* httpx answers or raises within its 12 s timeout, a sleep ends, and the   *)
(* event loop runs every ready task: a step that can be taken is taken.     *)
SpecFetch == InitFetch /\ [][NextFetch]_vars /\ WF_vars(NextFetch)

(* ------------------------------------------------------------------------ *)
(* verification/agent.py: verify_candidates(candidates, concurrency,        *)
(* llm_client). Operation i of its map_with_limit is _worker(candidates[i]), *)
(* that is verify_candidate, which returns a VerificationResult: the one    *)
(* built from the reply, or the one of its except branch.                   *)

(* A worker that returns nothing for a candidate whose pipeline failed. *)
WorkerResultDropsDegraded(i, outcome) ==
    IF outcome = "degraded" THEN None
    ELSE [candidate |-> i,
          result |-> WithContext([Fallback("") EXCEPT !.verdict = "likely",
                                                      !.confidence = 70,
                                                      !.reasoning = <<"ok">>],
                                 <<>>, ProbeNames)]

(* return await verify_candidate(business, settlement, llm_client=...) for  *)
(* candidate i.                                                             *)
WorkerResult(i, outcome) ==
    [candidate |-> i,
     result |-> IF outcome = "degraded" THEN Fallback("LLMError")
                ELSE WithContext([Fallback("") EXCEPT !.verdict = "likely",
                                                      !.confidence = 70,
                                                      !.reasoning = <<"ok">>],
                                 <<>>, ProbeNames)]

(* verify_candidates up to the await of asyncio.gather in map_with_limit:   *)
(* with no client passed get_llm_client() runs first, outside any try, and  *)
(* its exception leaves verify_candidates.                                  *)
BatchCall ==
    /\ vpc = "batch"
    /\ fpc = "init"
    /\ \E llm_client \in {"passed", "built", "unavailable"} :
          IF llm_client = "unavailable"
          THEN /\ fpc' = "raised"
               /\ fret' = [kind |-> "error", v |-> "ClientError"]
               /\ UNCHANGED <<fanIn, taskVars, envVars, archiveVars, probeVars, verifyVars>>
          ELSE Call

(* verify_candidate for candidate i returns. *)
WorkerReturn(i) ==
    /\ tpc[i] = "running"
    /\ ops[i].kind = "worker"
    /\ \E outcome \in {"ok", "degraded"} : Returned(i, WorkerResult(i, outcome))
    /\ UNCHANGED <<fanIn, callVars, envVars, archiveVars, probeVars, verifyVars>>

(* map_with_limit(candidates, _worker, concurrency=concurrency, delay_s=0.5): *)
(* delay_s is not zero.                                                      *)
InitBatch ==
    /\ variant = "map"
    /\ concurrency \in ConcValues
    /\ delay_s = 1
    /\ ops \in {[i \in 1 .. k |-> [kind |-> "worker", v |-> i]] : k \in 0 .. MaxN}
    /\ FanOutIdle
    /\ biz_website = ""
    /\ ddg_installed = TRUE
    /\ web = WebIdle
    /\ sp = [p \in 2 .. 4 |-> SearchIdle]
    /\ vpc = "batch"
    /\ vout = NoOut
    /\ verr = ""
    /\ reply = NoReply
    /\ wb = WbIdle
    /\ pf = PfIdle

NextBatch ==
    \/ BatchCall
    \/ \E i \in Tasks : TaskStart(i)
    \/ \E i \in Tasks : WorkerReturn(i)
    \/ \E i \in Tasks : SleepDone(i)
    \/ Resume

SpecBatch == InitBatch /\ [][NextBatch]_vars

(* ------------------------------------------------------------------------ *)
(* verification/tools.py: check_wayback_history(business_name, city,        *)
(* website_url) and its helpers.                                            *)

(* Bound of the model: the data rows of an index answer. *)
MaxRows == 3

(* A website URL is a sequence of tokens: "SP" whitespace, "SCHEME" the     *)
(* text up to and including "://", "WWW" the prefix "www.", "HOST" a host   *)
(* name, "PATH" a path, "BADV6" an unclosed "[" that makes urlparse raise.  *)
WebsiteUrls ==
    { <<>>, <<"SP">>, <<"HOST">>, <<"SCHEME", "WWW", "HOST", "PATH">>,
      <<"SCHEME", "PATH">>, <<"SCHEME", "BADV6", "HOST">> }

RECURSIVE Netloc(_)
Netloc(t) ==
    IF t = <<>> \/ Head(t) = "PATH" THEN <<>> ELSE <<Head(t)>> \o Netloc(Tail(t))

(* _domain_from_website(website_url) *)
DomainFromWebsite(website_url) ==
    LET url == Strip(website_url, {"SP"})
        full == IF \E i \in DOMAIN url : url[i] = "SCHEME" THEN url
                ELSE <<"SCHEME">> \o url
    IN  IF url = <<>> THEN <<>>
        ELSE IF \E i \in DOMAIN full : full[i] = "BADV6" THEN <<>>
        ELSE LET host == Netloc(Tail(full)) IN
             IF host # <<>> /\ Head(host) = "WWW" THEN Tail(host) ELSE host

(* A capture timestamp is 0 for a string strptime rejects (or the empty     *)
(* string), else 10 * day + time of day.                                    *)
Timestamps == {0, 11, 12, 21}

(* _wayback_iso_date(timestamp): the date of the timestamp, 0 for None. *)
WaybackIsoDate(timestamp) == IF timestamp = 0 THEN 0 ELSE timestamp \div 10

(* max_samples=8 of _sample_wayback_rows *)
MaxSamples == 8

RECURSIVE SampleLoop(_, _, _, _)
SampleLoop(idxs, i, n, step) ==
    IF i >= n THEN idxs
    ELSE LET a == idxs \cup {i} IN
         IF Cardinality(a) >= MaxSamples THEN a ELSE SampleLoop(a, i + step, n, step)

(* A sampling that keeps what the stride meets and nothing else. *)
SampleIdxsStrideOnly(n) ==
    IF n <= MaxSamples THEN 0 .. (n - 1)
    ELSE LET step == Max({1, (n - 1) \div (MaxSamples - 1)})
         IN  {i \in SampleLoop({}, 0, n, step) : 0 <= i /\ i < n}

(* The 0-based indexes _sample_wayback_rows keeps of n rows. *)
SampleIdxs(n) ==
    IF n <= MaxSamples THEN 0 .. (n - 1)
    ELSE LET idxs == {0, 1, Min({2, n - 1}), n - 1}
             step == Max({1, (n - 1) \div (MaxSamples - 1)})
         IN  {i \in SampleLoop(idxs, 0, n, step) : 0 <= i /\ i < n}

RECURSIVE PickSorted(_, _)
PickSorted(rows, idxs) ==
    IF idxs = {} THEN <<>>
    ELSE <<rows[Min(idxs) + 1]>> \o PickSorted(rows, idxs \ {Min(idxs)})

(* A sampling that keeps the earliest rows only. *)
SampleWaybackRowsHead(rows) == SubSeq(rows, 1, Min({Len(rows), MaxSamples}))

(* _sample_wayback_rows(rows) *)
SampleWaybackRows(rows) == PickSorted(rows, SampleIdxs(Len(rows)))

(* The business name of the lookup has this many tokens of 4 letters or     *)
(* more that are not stopwords ("acme bakery").                             *)
NameTokens == {"acme", "bakery"}

(* What _identity_score looks for in the text of a snapshot. *)
Pages ==
    { [phrase_hit |-> TRUE, token_hits |-> 2, city_hit |-> TRUE, owner_change |-> FALSE],
      [phrase_hit |-> FALSE, token_hits |-> 2, city_hit |-> FALSE, owner_change |-> TRUE],
      [phrase_hit |-> FALSE, token_hits |-> 1, city_hit |-> TRUE, owner_change |-> FALSE],
      [phrase_hit |-> FALSE, token_hits |-> 0, city_hit |-> FALSE, owner_change |-> FALSE] }

(* _identity_score(text, business_name, city), in hundredths of a point     *)
(* times the number of name tokens: 0.7 for the phrase, else 0.6 times the  *)
(* share of tokens found; 0.2 for the city; 0.1 for two tokens or more;     *)
(* at most 1.0.                                                             *)
ScoreUnit == 100 * Max({1, Cardinality(NameTokens)})

(* The score in hundredths times d, d being max(1, len(tokens)). *)
ScoreOf(phrase_hit, token_hits, city_hit, d) ==
    LET raw == (IF phrase_hit THEN 70 * d ELSE 60 * token_hits)
               + (IF city_hit THEN 20 * d ELSE 0)
               + (IF token_hits >= 2 THEN 10 * d ELSE 0)
    IN  Min({raw, 100 * d})

IdentityScore(page) ==
    ScoreOf(page.phrase_hit, page.token_hits, page.city_hit,
            Max({1, Cardinality(NameTokens)}))

(* "matched": score >= 0.65 *)
Matched(score) == 100 * score >= 65 * ScoreUnit

(* SubAgentFinding(source="wayback_archive", ...) *)
WbFinding(url, text, supports, is_error, detail) ==
    [Finding("wayback_archive", url, text, is_error, detail)
        EXCEPT !.supports_eligibility = supports]

(* A lookup that lets the exception leave. *)
WbExceptPropagates(e) == [kind |-> "raised", finding |-> <<e>>]

(* except Exception as e: return SubAgentFinding(..., is_error=True, ...) *)
WbExcept(e) ==
    [kind |-> "returned",
     finding |-> WbFinding("web.archive.org/web/*/domain",
                           "Wayback archive lookup was unavailable at time of verification.",
                           "None", TRUE, [type |-> e, status |-> 0])]

(* A lookup that flags its inconclusive answers as errors. *)
WbNeutralAsError(url, text) ==
    [kind |-> "returned",
     finding |-> WbFinding(url, text, "None", TRUE, [type |-> "None", status |-> 0])]

(* SubAgentFinding(..., supports_eligibility=None): is_error keeps its      *)
(* default False.                                                           *)
WbNeutral(url, text) ==
    [kind |-> "returned", finding |-> WbFinding(url, text, "None", FALSE, NoError)]

(* The lookup returns (or raises) out: its locals end, its history stays. *)
WbDone(w, out) == [w EXCEPT !.pc = "done", !.k = 0, !.out = out]

WbCaught(w, e) == WbDone([w EXCEPT !.caught = e], WbExcept(e))

RECURSIVE InsertByTs(_, _)
InsertByTs(sorted, ts) ==
    IF sorted = <<>> \/ sorted[Len(sorted)] <= ts THEN Append(sorted, ts)
    ELSE Append(InsertByTs(SubSeq(sorted, 1, Len(sorted) - 1), ts), sorted[Len(sorted)])

(* rows.sort(key=lambda r: r[0]), on the timestamps of the rows *)
RECURSIVE SortByTs(_)
SortByTs(rows) ==
    IF rows = <<>> THEN <<>>
    ELSE InsertByTs(SortByTs(SubSeq(rows, 1, Len(rows) - 1)), rows[Len(rows)])

RECURSIVE InsertByDate(_, _)
InsertByDate(sorted, r) ==
    IF sorted = <<>> \/ sorted[Len(sorted)].date <= r.date THEN Append(sorted, r)
    ELSE Append(InsertByDate(SubSeq(sorted, 1, Len(sorted) - 1), r), sorted[Len(sorted)])

(* sampled_results.sort(key=lambda r: r["date"]) *)
RECURSIVE SortByDate(_)
SortByDate(rs) ==
    IF rs = <<>> THEN <<>>
    ELSE InsertByDate(SortByDate(SubSeq(rs, 1, Len(rs) - 1)), rs[Len(rs)])

IsMatched(r) == r.matched

(* A lookup that reports low continuity as evidence against eligibility. *)
SupportsFalseWhenLow(matched, total) ==
    IF total > 0 /\ 5 * matched >= 3 * total THEN "True" ELSE "False"

(* supports_eligibility=True if continuity >= 0.6 else None, with          *)
(* continuity = matched / total if total else 0.0 (0.6 is 3/5).             *)
Supports(matched, total) ==
    IF total > 0 /\ 5 * matched >= 3 * total THEN "True" ELSE "None"

(* A continuity taken over all the samples. *)
PostMatchAll(sorted, first_match) == sorted

(* post_match = [r for r in sampled_results if r["date"] >= first_match["date"]] *)
PostMatch(sorted, first_match) ==
    LET AtOrAfter(r) == r.date >= first_match.date IN SelectSeq(sorted, AtOrAfter)

(* A continuity that counts the samples that did not match. *)
ContinuityOfMisses(post_match) ==
    <<Len(post_match) - Len(SelectSeq(post_match, IsMatched)), Len(post_match)>>

(* sum(1 for r in post_match if r["matched"]) / len(post_match), as the    *)
(* pair of the numerator and the denominator.                              *)
Continuity(post_match) ==
    <<Len(SelectSeq(post_match, IsMatched)), Len(post_match)>>

(* check_wayback_history after the loop over the sampled rows; continuity   *)
(* is kept as the pair of its numerator and its denominator.                *)
WbFinish(w) ==
    LET sorted == SortByDate(w.samples)
        matches == SelectSeq(sorted, IsMatched)
        ww == [w EXCEPT !.samples = sorted]
    IN  IF w.samples = <<>>
        THEN WbDone(ww, WbNeutral("web.archive.org/web/*/domain",
                                  "sampled snapshots were not parseable"))
        ELSE IF matches = <<>>
        THEN WbDone(ww, WbNeutral("web.archive.org/web/*/domain",
                                  "no sampled snapshot matched the current business identity"))
        ELSE LET first_match == matches[1]
                 post_match == PostMatch(sorted, first_match)
                 continuity == Continuity(post_match)
             IN  WbDone([ww EXCEPT !.continuity = continuity],
                        [kind |-> "returned",
                         finding |-> WbFinding("snapshot of first match",
                                               "Wayback domain capture begins",
                                               Supports(continuity[1], continuity[2]),
                                               FALSE, NoError)])

(* The loop `for row in sampled` from row w.k on: rows without a date are   *)
(* skipped, the next one is fetched; after the last row the lookup ends.    *)
RECURSIVE WbLoop(_)
WbLoop(w) ==
    IF w.k > Len(w.rows) THEN WbFinish(w)
    ELSE IF WaybackIsoDate(w.rows[w.k]) = 0
    THEN WbLoop([w EXCEPT !.k = @ + 1, !.skipped = @ + 1])
    ELSE [w EXCEPT !.pc = "snap"]

(* check_wayback_history up to `await client.get(_WAYBACK_CDX_URL, ...)`. *)
WbBegin ==
    /\ wb.pc = "begin"
    /\ wb' = IF wb.url = <<>>
             THEN WbDone(wb, WbNeutral("None", "No website available"))
             ELSE LET domain == DomainFromWebsite(wb.url) IN
                  IF domain = <<>>
                  THEN WbDone(wb, [kind |-> "returned",
                                   finding |-> WbFinding("website_url",
                                       "Website URL format prevented archive lookup.",
                                       "None", TRUE,
                                       [type |-> "Invalid website URL", status |-> 0])])
                  ELSE [wb EXCEPT !.pc = "cdx", !.domain = domain]
    /\ UNCHANGED <<fanIn, taskVars, callVars, envVars, probeVars, verifyVars, pf>>

(* A data row of the index answer: a list with a timestamp string and the   *)
(* original URL, a list whose timestamp is not a string, or something that  *)
(* is not a list of two items or more.                                      *)
IndexRows ==
    [kind : {"row"}, ts : Timestamps]
    \cup {[kind |-> "int_timestamp", ts |-> 0], [kind |-> "unusable", ts |-> 0]}

(* What the index can answer: an exception of httpx, an error status, a     *)
(* body that is not JSON, a JSON object, or a JSON list (empty, or a header *)
(* row followed by data rows).                                              *)
CdxResponses ==
    {[kind |-> k, rows |-> <<>>] :
        k \in {"ConnectError", "HTTPStatusError", "JSONDecodeError", "object", "empty list"}}
    \cup {[kind |-> "list", rows |-> r] :
             r \in UNION {[1 .. n -> IndexRows] : n \in 0 .. MaxRows}}

IsListRow(r) == r.kind # "unusable"

RowTs(rows) == [i \in DOMAIN rows |-> rows[i].ts]

(* The index answers: raise_for_status, json(), the filter and the sort of  *)
(* the rows, the sampling, and the loop up to its first snapshot fetch.     *)
WbIndex ==
    /\ wb.pc = "cdx"
    /\ \E r \in CdxResponses :
        LET w == [wb EXCEPT !.index = [kind |-> r.kind, n |-> Len(r.rows)]] IN
        wb' = IF r.kind \in {"ConnectError", "HTTPStatusError", "JSONDecodeError"}
              THEN WbCaught(w, r.kind)
              ELSE IF r.kind \in {"object", "empty list"} \/ r.rows = <<>>
              THEN \* not isinstance(payload, list) or len(payload) <= 1
                   WbDone(w, WbNeutral("web.archive.org/web/*/domain",
                                       "Wayback archive has no HTML captures"))
              ELSE LET rows == SelectSeq(r.rows, IsListRow) IN
                   IF \E i \in DOMAIN rows : rows[i].kind = "int_timestamp"
                   THEN \* the sort or timestamp[:14] raises TypeError
                        WbCaught(w, "TypeError")
                   ELSE IF rows = <<>>
                   THEN \* rows[0][0]
                        WbCaught(w, "IndexError")
                   ELSE LET sorted == SortByTs(RowTs(rows)) IN
                        WbLoop([w EXCEPT !.rows = SampleWaybackRows(sorted),
                                         !.earliest = WaybackIsoDate(sorted[1]),
                                         !.k = 1])
    /\ UNCHANGED <<fanIn, taskVars, callVars, envVars, probeVars, verifyVars, pf>>

(* What the archive can answer to a snapshot request. *)
SnapResponses ==
    {[kind |-> k, page |-> <<>>] : k \in {"exception", "error status", "short text"}}
    \cup [kind : {"page"}, page : Pages]

(* The snapshot of row w.k arrives; the loop goes on to its next fetch or   *)
(* to the end of the lookup.                                                *)
WbSnapshot ==
    /\ wb.pc = "snap"
    /\ \E r \in SnapResponses :
        wb' = IF r.kind # "page"
              THEN WbLoop([wb EXCEPT !.k = @ + 1, !.skipped = @ + 1])
              ELSE LET score == IdentityScore(r.page) IN
                   WbLoop([wb EXCEPT !.k = @ + 1,
                                     !.samples = Append(@,
                                         [date |-> WaybackIsoDate(wb.rows[wb.k]),
                                          score |-> score,
                                          owner_change |-> r.page.owner_change,
                                          matched |-> Matched(score)])])
    /\ UNCHANGED <<fanIn, taskVars, callVars, envVars, probeVars, verifyVars, pf>>

InitWayback ==
    /\ variant = "gather"
    /\ concurrency = 1
    /\ delay_s = 0
    /\ ops = <<>>
    /\ FanOutIdle
    /\ biz_website = ""
    /\ ddg_installed = TRUE
    /\ web = WebIdle
    /\ sp = [p \in 2 .. 4 |-> SearchIdle]
    /\ vpc = "idle"
    /\ vout = NoOut
    /\ verr = ""
    /\ reply = NoReply
    /\ wb \in {[WbIdle EXCEPT !.pc = "begin", !.url = u] : u \in WebsiteUrls}
    /\ pf = PfIdle

NextWayback ==
    \/ WbBegin
    \/ WbIndex
    \/ WbSnapshot

SpecWayback == InitWayback /\ [][NextWayback]_vars

(* ------------------------------------------------------------------------ *)
(* _sample_wayback_rows(rows) called on the rows of an index answer, which  *)
(* the query caps at 200: row i of the argument is written i (0-based).     *)

(* ("limit", "200") *)
IndexCap == 200

IdleButArchive ==
    /\ variant = "gather"
    /\ concurrency = 1
    /\ delay_s = 0
    /\ ops = <<>>
    /\ FanOutIdle
    /\ biz_website = ""
    /\ ddg_installed = TRUE
    /\ web = WebIdle
    /\ sp = [p \in 2 .. 4 |-> SearchIdle]
    /\ vpc = "idle"
    /\ vout = NoOut
    /\ verr = ""
    /\ reply = NoReply

InitSample ==
    /\ IdleButArchive
    /\ wb = WbIdle
    /\ pf \in {[PfIdle EXCEPT !.pc = "call", !.f = "_sample_wayback_rows",
                               !.arg = [i \in 1 .. n |-> i - 1]] : n \in 0 .. IndexCap}

SampleCall ==
    /\ pf.pc = "call"
    /\ pf.f = "_sample_wayback_rows"
    /\ pf' = [pf EXCEPT !.pc = "done", !.out = SampleWaybackRows(pf.arg)]
    /\ UNCHANGED <<fanIn, taskVars, callVars, envVars, probeVars, verifyVars, wb>>

NextSample == SampleCall

SpecSample == InitSample /\ [][NextSample]_vars

(* ------------------------------------------------------------------------ *)
(* _identity_score(page_text, business_name, city) on texts. A text is a    *)
(* sequence of pieces: a word, a space " ", or a punctuation mark; words    *)
(* are never adjacent.                                                      *)

Punctuation == {"'", "!"}

(* str.lower() on a piece *)
Lower(t) ==
    CASE t = "Acme" -> "acme"
      [] t = "Bakery" -> "bakery"
      [] t = "Joe" -> "joe"
      [] t = "Pizza" -> "pizza"
      [] t = "Wooster" -> "wooster"
      [] t = "LLC" -> "llc"
      [] OTHER -> t

LowerText(text) == [i \in DOMAIN text |-> Lower(text[i])]

(* len(t) of the words a name can hold *)
WordLen(w) ==
    CASE w = "acme" -> 4
      [] w = "bakery" -> 6
      [] w = "pizza" -> 5
      [] w = "joe" -> 3
      [] w = "llc" -> 3
      [] w = "s" -> 1
      [] OTHER -> 0

_TOKEN_STOPWORDS ==
    {"the", "and", "for", "with", "from", "into", "your", "you", "our",
     "llc", "inc", "co", "company", "ltd", "group", "services", "service"}

_OWNER_CHANGE_MARKERS ==
    { <<"under", " ", "new", " ", "ownership">>,
      <<"new", " ", "ownership">>,
      <<"formerly">>,
      <<"now", " ", "known", " ", "as">>,
      <<"rebranded">>,
      <<"acquired">> }

(* re.sub(r"\s+", " ", ...): a run of spaces becomes one space. *)
RECURSIVE CollapseSpaces(_)
CollapseSpaces(t) ==
    IF Len(t) < 2 THEN t
    ELSE IF t[1] = " " /\ t[2] = " " THEN CollapseSpaces(Tail(t))
    ELSE <<t[1]>> \o CollapseSpaces(Tail(t))

(* cleaned_name: lower case, every run of characters outside [a-z0-9 ]     *)
(* replaced by a space, runs of spaces collapsed, stripped.                 *)
CleanedName(business_name) ==
    LET lowered == LowerText(business_name)
        spaced == [i \in DOMAIN lowered |->
                     IF lowered[i] \in Punctuation THEN " " ELSE lowered[i]]
    IN  Strip(CollapseSpaces(spaced), {" "})

IsKeptToken(w) == w # " " /\ WordLen(w) >= 4 /\ w \notin _TOKEN_STOPWORDS

(* needle in text, for a text that is not empty *)
IsSubText(needle, text) ==
    \E i \in 0 .. (Len(text) - Len(needle)) :
        SubSeq(text, i + 1, i + Len(needle)) = needle

(* re.search(rf"\b{word}\b", text) *)
HasWord(text, w) == \E i \in DOMAIN text : text[i] = w

(* _identity_score: the score in hundredths times unit / 100, and the       *)
(* owner-change signal.                                                     *)
IdentityScoreOf(page_text, business_name, city) ==
    LET text == LowerText(page_text)
        cleaned_name == CleanedName(business_name)
        tokens == SelectSeq(cleaned_name, IsKeptToken)
        d == Max({1, Len(tokens)})
        phrase_hit == IsSubText(cleaned_name, text)
        token_hits == Cardinality({i \in DOMAIN tokens : HasWord(text, tokens[i])})
        city_hit == city # "" /\ HasWord(text, Lower(city))
    IN  IF cleaned_name = <<>>
        THEN [score |-> 0, unit |-> 100, owner_change |-> FALSE]
        ELSE [score |-> ScoreOf(phrase_hit, token_hits, city_hit, d),
              unit |-> 100 * d,
              owner_change |-> \E m \in _OWNER_CHANGE_MARKERS : IsSubText(m, text)]

BusinessNames ==
    { <<"Acme", " ", "Bakery">>,
      <<"Joe", "'", "s", " ", "Pizza">>,
      <<"Acme", " ", " ", "Bakery", " ", "LLC">>,
      <<"!">>,
      <<>> }

PageTexts ==
    { <<"welcome", " ", "to", " ", "Acme", " ", "Bakery", " ", "in", " ", "Wooster">>,
      <<"Joe", "'", "s", " ", "Pizza">>,
      <<"bakery", " ", "news", " ", "formerly", " ", "acme">>,
      <<"Acme", " ", "Bakery", " ", "LLC", " ", "Pizza">>,
      <<"Wooster", " ", "news">>,
      <<>> }

Cities == {"", "Wooster", "Akron"}

InitScore ==
    /\ IdleButArchive
    /\ wb = WbIdle
    /\ pf \in {[PfIdle EXCEPT !.pc = "call", !.f = "_identity_score",
                               !.arg = [page_text |-> t, business_name |-> n,
                                        city |-> c]] :
                  t \in PageTexts, n \in BusinessNames, c \in Cities}

ScoreCall ==
    /\ pf.pc = "call"
    /\ pf.f = "_identity_score"
    /\ pf' = [pf EXCEPT !.pc = "done",
                        !.out = IdentityScoreOf(pf.arg.page_text,
                                                pf.arg.business_name, pf.arg.city)]
    /\ UNCHANGED <<fanIn, taskVars, callVars, envVars, probeVars, verifyVars, wb>>

NextScore == ScoreCall

SpecScore == InitScore /\ [][NextScore]_vars

(* ------------------------------------------------------------------------ *)
(* Properties of the fan-out executor (specification Spec).                 *)

InFlight == Cardinality({i \in Tasks : tpc[i] = "running"})
PermitHolders == Cardinality({i \in Tasks : tpc[i] \in {"running", "sleeping"}})

(* C1: a fan-out call that returns, returns exactly N results, and          *)
(* result[i] is the value operation i returned, whatever that value is.     *)
C1_NResultsInInputOrder ==
    fpc = "returned" =>
        /\ Len(fret.v) = N
        /\ \A i \in Tasks : fret.v[i] = ops[i].v

(* C2: with C >= 1 at most C operations are in flight at any moment, and    *)
(* every operation that has started holds one of the C permits.             *)
C2_AtMostCInFlight ==
    (concurrency >= 1 /\ fpc # "init") =>
        /\ InFlight <= concurrency
        /\ semaphore >= 0
        /\ PermitHolders = concurrency - semaphore

C2_Witness ==
    /\ concurrency >= 1
    /\ InFlight = concurrency
    /\ \E i \in Tasks : tpc[i] = "waiting"
    /\ \E i \in Tasks : tpc[i] = "done"

(* C3: a call with concurrency 0 or negative raises ValueError, in both     *)
(* variants, and no operation has been started.                             *)
C3_InvalidConcurrencyRaises ==
    (concurrency < 1 /\ fpc # "init") =>
        /\ fpc = "raised"
        /\ fret = [kind |-> "error", v |-> "ValueError"]
        /\ \A i \in Tasks : tpc[i] = "none"
        /\ results = <<>>

C3_Witness ==
    /\ concurrency = 0
    /\ variant = "map"
    /\ N >= 2
    /\ fpc = "raised"

(* C4: the call returns or raises only once every one of the N operations   *)
(* has completed, with a result or with an error.                           *)
C4_ResolvesAfterAllCompleted ==
    (concurrency >= 1 /\ Resolved) =>
        \A i \in Tasks : tpc[i] \in {"done", "failed"}

(* C5: when an operation of gather_with_limit raises, the call raises an    *)
(* error one of its operations raised (that error, when it is the only      *)
(* one), and it never returns a list although an operation failed.          *)
C5_ErrorPropagates ==
    (variant = "gather" /\ concurrency >= 1 /\ Resolved) =>
        /\ fpc = "returned" => \A i \in Tasks : ops[i].kind = "value"
        /\ (\E i \in Tasks : tpc[i] = "failed") => fpc = "raised"
        /\ fpc = "raised" =>
              /\ fret.kind = "error"
              /\ \E i \in Tasks : tpc[i] = "failed" /\ ops[i].v = fret.v

C5_Witness ==
    /\ variant = "gather"
    /\ fpc = "raised"
    /\ fret.v = "E2"
    /\ N >= 2
    /\ \E i \in Tasks : tpc[i] = "done"

(* ------------------------------------------------------------------------ *)
(* Properties of verify_candidate and its probes (specification SpecVerify). *)

(* The external call of probe p failed on every attempt made. *)
ProbeFailed(p) ==
    IF p = WebTask THEN Len(web.requests) > 0 /\ ~web.ok
    ELSE sp[p].calls > 0 /\ ~sp[p].ok

(* C6: verify_candidate never raises; an exception anywhere in its pipeline *)
(* yields verdict unlikely, confidence 0, no evidence, a reasoning that     *)
(* embeds the error, and the four probe names as checks performed.          *)
C6_NeverRaises ==
    vpc = "done" =>
        /\ vout.kind = "returned"
        /\ fpc = "raised" => verr = fret.v
        /\ verr # "" =>
              /\ vout.result.verdict = "unlikely"
              /\ vout.result.confidence = 0
              /\ vout.result.evidence = <<>>
              /\ vout.result.reasoning = <<"Verification failed: ", verr>>
              /\ vout.result.checks_performed =
                    <<"business_website", "platform_search", "general_search",
                      "review_search">>

C6_Witness ==
    /\ vpc = "done"
    /\ fpc = "raised"
    /\ fret.v = "DDGSError"
    /\ vout.kind = "returned"

(* C7: on the success path the evidence is the four raw Findings in probe   *)
(* order and the checks performed are the four probe names, whatever the    *)
(* reply holds in its own evidence and checks_performed fields.             *)
C7_EvidenceIsRawFindings ==
    (vpc = "done" /\ verr = "") =>
        /\ vout.kind = "returned"
        /\ Len(vout.result.evidence) = 4
        /\ \A i \in 1 .. 4 : vout.result.evidence[i] = results[i]
        /\ \A i \in 1 .. 4 : vout.result.evidence[i].source = ProbeNames[i]
        /\ vout.result.checks_performed = ProbeNames

C7_Witness ==
    /\ vpc = "done"
    /\ verr = ""
    /\ reply.doc.evidence = "own"
    /\ reply.doc.checks = "own"
    /\ Len(vout.result.evidence) = 4

(* C8: verify_candidate runs exactly its four probes through the fan-out at *)
(* concurrency 4, and the Findings the fan-out returns are in the fixed     *)
(* probe order whatever the order the probes completed in.                  *)
C8_FourProbesInFixedOrder ==
    /\ N = 4
    /\ variant = "gather"
    /\ concurrency = 4
    /\ \A i \in Tasks : ops[i] = [kind |-> "probe", v |-> ProbeNames[i]]
    /\ InFlight <= 4
    /\ fpc = "returned" =>
          /\ Len(fret.v) = 4
          /\ \A i \in 1 .. 4 : fret.v[i].source = ProbeNames[i]

C8_Witness ==
    /\ fpc = "returned"
    /\ overtaken
    /\ Len(fret.v) = 4

(* C9 as stated: for a business with no website the result has the four     *)
(* probe names and four pieces of evidence, also when every downstream      *)
(* network call (the searches and the reasoning call) fails.                *)
C9_NoWebsiteFourEvidence ==
    (biz_website = "" /\ vpc = "done"
     /\ (\A p \in SearchTasks : ProbeFailed(p)) /\ reply.kind = "raise") =>
        /\ vout.kind = "returned"
        /\ vout.result.checks_performed = ProbeNames
        /\ Len(vout.result.evidence) = 4

(* C9 amended: for a business with no website verify_candidate returns,     *)
(* without raising, a result with the four probe names; its evidence has    *)
(* length 4 when the pipeline completed (also when every search call        *)
(* failed), and is empty when an exception made it fall back.               *)
C9_NoWebsiteAmended ==
    (biz_website = "" /\ vpc = "done") =>
        /\ vout.kind = "returned"
        /\ vout.result.checks_performed = ProbeNames
        /\ Len(vout.result.evidence) = IF verr = "" THEN 4 ELSE 0

C9_Witness ==
    /\ biz_website = ""
    /\ vpc = "done"
    /\ verr = ""
    /\ \A p \in SearchTasks : ProbeFailed(p)
    /\ Len(vout.result.evidence) = 4

(* C10: every probe that returned left one Finding with its source name,    *)
(* and the Finding of a probe whose external call failed on every attempt   *)
(* has is_error = TRUE.                                                     *)
C10_FailedProbeIsErrorFinding ==
    \A p \in 1 .. 4 :
        (fpc # "init" /\ tpc[p] = "done") =>
            /\ results[p].source = ProbeNames[p]
            /\ ProbeFailed(p) => results[p].is_error

(* C11: no probe ever raises to the fan-out: no probe task ends failed, and *)
(* a probe that has ended has left a Finding.                               *)
C11_NoProbeRaises ==
    \A p \in 1 .. 4 :
        /\ tpc[p] # "failed"
        /\ (fpc # "init" /\ tpc[p] = "done") => results[p].source = ProbeNames[p]

(* C13: the confidence of every result verify_candidate returns is within   *)
(* 0 .. 100, whatever the reasoning collaborator replied.                   *)
C13_ConfidenceInRange ==
    (vpc = "done" /\ vout.kind = "returned") =>
        /\ vout.result.confidence >= 0
        /\ vout.result.confidence <= 100

(* ------------------------------------------------------------------------ *)
(* Properties of check_business_website (specification SpecFetch).          *)

WebReturned ==
    /\ web.pc = "done"
    /\ fpc # "init"
    /\ tpc[WebTask] = "done"

(* C14: with a non-empty URL check_business_website sends at most 3 HTTP    *)
(* requests whatever the site answers (the retry after a first 403 and the  *)
(* retries after retryable answers count in the same 3), and it always ends *)
(* by returning a Finding.                                                  *)
C14_AtMostThreeRequests ==
    /\ [](~HasNoUrl => Len(web.requests) <= 3)
    /\ [](WebReturned => results[WebTask].source = "business_website")
    /\ (~HasNoUrl /\ web.pc = "begin") ~> WebReturned

C14_Witness ==
    /\ ~HasNoUrl
    /\ WebReturned
    /\ Len(web.requests) = 3
    /\ web.sleeps = <<ForbiddenDelay, Backoff(1), Backoff(2)>>

(* C15: when check_business_website ends without a successful answer, its   *)
(* Finding has is_error = TRUE and its error detail describes the answer to *)
(* the last request sent, not the answer to an earlier one.                 *)
C15_ErrorDescribesLastAttempt ==
    (WebReturned /\ Len(web.requests) > 0 /\ ~web.ok) =>
        /\ results[WebTask].is_error = TRUE
        /\ LET d == results[WebTask].error_detail IN
           IF web.last.kind = "status"
           THEN /\ d.status = web.last.status
                /\ d.type \in {"HTTP", "HTTP 403 Forbidden", "HTTPStatusError"}
           ELSE /\ web.last.kind = "exception"
                /\ d.type = web.last.exc

C15_Witness ==
    /\ WebReturned
    /\ Len(web.requests) = 3
    /\ web.sleeps[1] = ForbiddenDelay
    /\ web.last.status = 503
    /\ results[WebTask].is_error = TRUE
    /\ results[WebTask].error_detail = [type |-> "HTTP", status |-> 503]

(* C16: with an empty URL check_business_website sends no request and takes *)
(* no backoff sleep, never waits, and returns the Finding with source       *)
(* business_website, supports_eligibility None and is_error FALSE.          *)
C16_EmptyUrlNoNetwork ==
    biz_website = "" =>
        /\ web.requests = <<>>
        /\ web.sleeps = <<>>
        /\ web.pc \in {"begin", "done"}
        /\ WebReturned =>
              /\ results[WebTask].source = "business_website"
              /\ results[WebTask].supports_eligibility = "None"
              /\ results[WebTask].is_error = FALSE

C16_Witness ==
    /\ biz_website = ""
    /\ WebReturned
    /\ fpc = "returned"
    /\ web.requests = <<>>

(* ------------------------------------------------------------------------ *)
(* Properties of the search wrapper and the search probes (SpecVerify).     *)

(* The calls, pauses and result of every call of _ddg_search_with_retry:    *)
(* at most 2 ddg.text calls; a 2 s pause only after a failed call and       *)
(* always followed by the next call; [] when both calls failed.             *)
WrapperBudget(s) ==
    /\ s.wcalls <= 2
    /\ s.wpauses <= s.wfails
    /\ s.wpauses = IF s.pc = "sleep" THEN s.wcalls
                   ELSE IF s.wcalls = 0 THEN 0 ELSE s.wcalls - 1
    /\ s.wout = "exhausted" <=> (s.wfails = 2 /\ s.pc # "sleep")
    /\ s.wout = "exhausted" => s.wret = 0
    /\ s.wout = "hits" => s.wfails = s.wcalls - 1

(* C17 as stated: the wrapper makes at most 2 calls, pauses only between a  *)
(* failed call and the next, returns [] on exhaustion, and never raises to  *)
(* its caller.                                                              *)
C17_WrapperNeverRaises ==
    \A p \in SearchTasks :
        /\ WrapperBudget(sp[p])
        /\ sp[p].wout \notin {"ImportError", "DDGSError"}

(* C17 amended: the same budget, pauses and empty list on exhaustion; a     *)
(* failed search call never leaves the wrapper as an exception; the only    *)
(* exceptions that leave it are the ImportError of the missing package and  *)
(* an exception of the client constructor, both before the first call.      *)
C17_WrapperAmended ==
    \A p \in SearchTasks :
        /\ WrapperBudget(sp[p])
        /\ sp[p].wout \in {"ImportError", "DDGSError"} => sp[p].wcalls = 0
        /\ sp[p].wfails > 0 => sp[p].wout \in {"running", "hits", "exhausted"}
        /\ sp[p].wout = "ImportError" <=> (~ddg_installed /\ sp[p].pc = "done")

C17_Witness ==
    /\ sp[3].wout = "exhausted"
    /\ sp[3].wcalls = 2
    /\ sp[3].wpauses = 1
    /\ sp[4].wout = "DDGSError"
    /\ sp[2].wout = "hits"
    /\ sp[2].wfails = 1

(* C18: when the search package is not installed each search probe returns  *)
(* a Finding that says so, without a search call, and no Finding of a       *)
(* search that ran (with zero results or more) reads like it.               *)
C18_UnavailableIsExplicit ==
    \A p \in SearchTasks :
        (fpc # "init" /\ tpc[p] = "done") =>
            /\ ~ddg_installed =>
                  /\ results[p].finding \in {"duckduckgo-search package not available",
                                              "Search package not available"}
                  /\ sp[p].calls = 0
            /\ ddg_installed =>
                  results[p].finding \in {NoResultsTexts[p], "Search results",
                                          "Search was unavailable at time of verification"}
            /\ (sp[p].wout \in {"hits", "exhausted"} /\ sp[p].calls = sp[p].wcalls
                /\ sp[p].wret = 0) =>
                  results[p].finding = NoResultsTexts[p]

C18_Witness ==
    /\ ~ddg_installed
    /\ fpc = "returned"
    /\ \A p \in SearchTasks : tpc[p] = "done" /\ sp[p].wout = "ImportError"
    /\ results[2].is_error = FALSE
    /\ results[3].is_error = TRUE

(* ------------------------------------------------------------------------ *)
(* Properties of verify_candidates (specification SpecBatch).               *)

C19_WaybackNeverRaises ==
    wb.pc = "done" =>
        /\ wb.out.kind = "returned"
        /\ wb.out.finding.source = "wayback_archive"
        /\ wb.caught # "" =>
              /\ wb.out.finding.is_error = TRUE
              /\ wb.out.finding.error_detail = [type |-> wb.caught, status |-> 0]
        /\ (wb.caught = "" /\ wb.domain # <<>>) => wb.out.finding.is_error = FALSE

C19_Witness ==
    /\ wb.pc = "done"
    /\ wb.caught = "IndexError"
    /\ wb.out.kind = "returned"
    /\ wb.out.finding.is_error = TRUE

(* The samples that matched, and those dated at or after the first match. *)
MatchedSamples == {k \in DOMAIN wb.samples : wb.samples[k].matched}
PostMatchSamples ==
    {k \in DOMAIN wb.samples :
        \A m \in MatchedSamples :
            (\A n \in MatchedSamples : wb.samples[m].date <= wb.samples[n].date)
                => wb.samples[k].date >= wb.samples[m].date}

(* C20: the Finding of check_wayback_history has supports_eligibility True  *)
(* exactly when a sample matched and the matched share of the samples dated *)
(* at or after the first match is 0.6 or more; otherwise it is None; it is  *)
(* never False.                                                             *)
C20_SupportsIffContinuity ==
    wb.pc = "done" =>
        /\ wb.out.kind = "returned"
        /\ wb.out.finding.supports_eligibility \in {"True", "None"}
        /\ wb.out.finding.supports_eligibility = "True" <=>
              /\ MatchedSamples # {}
              /\ 10 * Cardinality(MatchedSamples \cap PostMatchSamples)
                    >= 6 * Cardinality(PostMatchSamples)

C20_Witness ==
    /\ wb.pc = "done"
    /\ Len(wb.samples) = 3
    /\ Cardinality(MatchedSamples) = 1
    /\ Cardinality(PostMatchSamples) = 2
    /\ wb.out.finding.supports_eligibility = "None"

(* ------------------------------------------------------------------------ *)
(* Properties of the reply handling of verify_candidate (SpecVerify).       *)

(* C21: a reply that carries a JSON document decodes to the same value with *)
(* or without triple-backtick fences, so a fenced reply is never a parse    *)
(* error; a reply that is not JSON is a parse error, which verify_candidate *)
(* turns into the fallback result.                                          *)
C21_FencedDecodesLikeBare ==
    (vpc = "done" /\ reply.kind = "text") =>
        /\ vout.kind = "returned"
        /\ (reply.text = <<"X">>) =>
              /\ verr = "JSONDecodeError"
              /\ vout.result = Fallback("JSONDecodeError")
        /\ (\E i \in DOMAIN reply.text : reply.text[i] = "J") =>
              verr # "JSONDecodeError"

(* C22: when the four probes and the reasoning call succeeded, the verdict, *)
(* confidence, is_chain, chain_reason and reasoning of the result are those *)
(* of the reply (the field default where the reply has none).               *)
C22_ResultCarriesReplyValues ==
    (vpc = "done" /\ verr = "") =>
        /\ reply.kind = "text"
        /\ vout.result.verdict = reply.doc.verdict
        /\ vout.result.confidence =
              IF reply.doc.conf_kind = "int" THEN reply.doc.confidence ELSE 50
        /\ vout.result.is_chain = (reply.doc.is_chain = "true")
        /\ vout.result.chain_reason =
              IF reply.doc.chain_reason = "absent" THEN "None" ELSE reply.doc.chain_reason
        /\ vout.result.reasoning =
              IF reply.doc.reasoning = "absent" THEN <<>> ELSE <<reply.doc.reasoning>>

C22_Witness ==
    /\ vpc = "done"
    /\ verr = ""
    /\ \A p \in 1 .. 4 : results[p].is_error = FALSE
    /\ web.ok
    /\ vout.result.verdict = "likely"
    /\ vout.result.confidence = 70
    /\ vout.result.is_chain = FALSE
    /\ vout.result.chain_reason = "franchise"
    /\ vout.result.reasoning = <<"why">>

(* ------------------------------------------------------------------------ *)
(* Properties of the retry policy of check_business_website (SpecFetch).    *)

WebAnswered == web.pc = "get" /\ web' # web
WebSlept == web.pc = "sleep" /\ web' # web

(* C23: the requests of attempts 0 and 1 carry the primary headers and the  *)
(* request of attempt 2 the alternate ones; after two retryable failures    *)
(* (as 503, 503) a 200 on the third request gives a Finding that is not an  *)
(* error.                                                                   *)
C23_HeaderRotation ==
    /\ \A i \in DOMAIN web.requests :
          web.requests[i] = IF i <= 2 THEN "_HEADERS" ELSE "_ALT_HEADERS"
    /\ (WebReturned /\ Len(web.requests) = 3 /\ web.last.kind = "status"
        /\ web.last.status = 200) =>
          /\ results[WebTask].is_error = FALSE
          /\ web.requests[3] = "_ALT_HEADERS"

C23_Witness ==
    /\ WebReturned
    /\ web.requests = <<"_HEADERS", "_HEADERS", "_ALT_HEADERS">>
    /\ web.sleeps = <<Backoff(0), Backoff(1)>>
    /\ web.last.status = 200
    /\ web.ok
    /\ results[WebTask].is_error = FALSE

(* C24: a 403 on attempt 0 is followed by a sleep of 1 second and by the    *)
(* second request, and this happens once only; a 403 on attempt 1 or 2 ends *)
(* the fetch with an error Finding: 403 then 403 ends after 2 requests.     *)
C24_ForbiddenRetriedOnce ==
    /\ [](\A i \in DOMAIN web.sleeps : web.sleeps[i] = 10 => i = 1)
    /\ []((web.pc = "sleep" /\ web.last.status = 403) =>
            /\ web.attempt = 0
            /\ web.sleeps = <<10>>
            /\ Len(web.requests) = 1)
    /\ []((WebReturned /\ web.last.kind = "status" /\ web.last.status = 403) =>
            /\ Len(web.requests) >= 2
            /\ Len(web.requests) = Len(web.sleeps) + 1
            /\ web.sleeps = <<10>> => Len(web.requests) = 2
            /\ results[WebTask].is_error = TRUE)
    /\ [][(WebSlept /\ web.last.status = 403) =>
            /\ web'.pc = "get"
            /\ Len(web'.requests) = 2]_vars
    /\ [][(WebAnswered /\ web'.last.status = 403 /\ web.attempt > 0) =>
            /\ web'.pc = "done"
            /\ web'.requests = web.requests
            /\ web'.sleeps = web.sleeps]_vars

C24_Witness ==
    /\ WebReturned
    /\ web.sleeps = <<ForbiddenDelay>>
    /\ Len(web.requests) = 2
    /\ web.last.status = 403
    /\ results[WebTask].is_error = TRUE
    /\ results[WebTask].error_detail = [type |-> "HTTPStatusError", status |-> 403]

(* C25: a status 429, 500, 502, 503 or 504 on attempt i is followed by a    *)
(* sleep of 1.5 * (i + 1) seconds (15, 30, 45 tenths) and no other step,    *)
(* and the sleep by the request of attempt i + 1 while one of the three     *)
(* attempts is left.                                                        *)
C25_RetryableStatusBackoff ==
    /\ [][(WebAnswered /\ web'.last.kind = "status"
           /\ web'.last.status \in {429, 500, 502, 503, 504}) =>
            /\ web'.pc = "sleep"
            /\ web'.sleeps = Append(web.sleeps, 15 * (web.attempt + 1))
            /\ web'.sleeps[Len(web'.sleeps)] \in {15, 30, 45}
            /\ web'.requests = web.requests]_vars
    /\ [][(WebSlept /\ web.last.kind = "status"
           /\ web.last.status \in {429, 500, 502, 503, 504}) =>
            IF web.attempt < 2
            THEN /\ web'.pc = "get"
                 /\ web'.attempt = web.attempt + 1
                 /\ Len(web'.requests) = Len(web.requests) + 1
            ELSE /\ web'.pc = "done"
                 /\ web'.requests = web.requests]_vars

C25_Witness ==
    /\ web.pc = "sleep"
    /\ web.attempt = 2
    /\ web.sleeps = <<15, 30, 45>>
    /\ web.last.status = 503

(* C26: a ConnectError, ReadTimeout or ConnectTimeout on attempt i is        *)
(* followed by the sleep of 1.5 * (i + 1) seconds and the next attempt, so   *)
(* three of them end in an error Finding after 3 requests; any other         *)
(* exception ends the fetch in the same step, with an error Finding and no   *)
(* further request or sleep.                                                 *)
C26_ExceptionRetryPolicy ==
    /\ [][(WebAnswered /\ web'.last.kind = "exception") =>
            IF web'.last.exc \in {"ConnectError", "ReadTimeout", "ConnectTimeout"}
            THEN /\ web'.pc = "sleep"
                 /\ web'.sleeps = Append(web.sleeps, 15 * (web.attempt + 1))
                 /\ web'.requests = web.requests
            ELSE /\ web'.pc = "done"
                 /\ web'.sleeps = web.sleeps
                 /\ web'.requests = web.requests
                 /\ results'[WebTask].is_error = TRUE]_vars
    /\ [][(WebSlept /\ web.last.kind = "exception") =>
            IF web.attempt < 2
            THEN /\ web'.pc = "get"
                 /\ Len(web'.requests) = Len(web.requests) + 1
            ELSE /\ web'.pc = "done"
                 /\ Len(web'.requests) = 3
                 /\ results'[WebTask].is_error = TRUE]_vars
    /\ []((WebReturned /\ web.last.kind = "exception") =>
            results[WebTask].is_error = TRUE)

C26_Witness ==
    /\ WebReturned
    /\ Len(web.requests) = 3
    /\ web.sleeps = <<15, 30, 45>>
    /\ web.last.exc = "ReadTimeout"
    /\ results[WebTask].is_error = TRUE

(* C27: an error status outside 429, 500, 502, 503, 504 (and not a 403 on   *)
(* attempt 0) ends the fetch in the step it is received: error Finding, no  *)
(* further request, no sleep.                                               *)
C27_TerminalStatus ==
    [][(WebAnswered /\ web'.last.kind = "status" /\ web'.last.status >= 400
        /\ web'.last.status \notin {429, 500, 502, 503, 504}
        /\ ~(web'.last.status = 403 /\ web.attempt = 0)) =>
            /\ web'.pc = "done"
            /\ web'.requests = web.requests
            /\ web'.sleeps = web.sleeps
            /\ results'[WebTask].is_error = TRUE
            /\ results'[WebTask].error_detail.status = web'.last.status]_vars

C27_Witness ==
    /\ WebReturned
    /\ web.last.status = 404
    /\ Len(web.requests) = 1
    /\ web.sleeps = <<>>
    /\ results[WebTask].is_error = TRUE

(* ------------------------------------------------------------------------ *)
(* Properties of _sample_wayback_rows (specification SpecSample).           *)

(* C28: _sample_wayback_rows returns all the rows when there are 8 or       *)
(* fewer; of more rows (up to 200) it returns at most 8, among them the row *)
(* at index 0 and the row at the last index.                                *)
C28_SampleKeepsFirstAndLast ==
    (pf.pc = "done" /\ pf.f = "_sample_wayback_rows") =>
        IF Len(pf.arg) <= 8
        THEN pf.out = pf.arg
        ELSE /\ Len(pf.out) <= 8
             /\ \E i \in DOMAIN pf.out : pf.out[i] = 0
             /\ \E i \in DOMAIN pf.out : pf.out[i] = Len(pf.arg) - 1
             /\ \A i \in DOMAIN pf.out : pf.out[i] \in 0 .. (Len(pf.arg) - 1)

C28_Witness ==
    /\ pf.pc = "done"
    /\ pf.f = "_sample_wayback_rows"
    /\ Len(pf.arg) = 20
    /\ pf.out = <<0, 1, 2, 4, 6, 8, 10, 19>>

(* ------------------------------------------------------------------------ *)
(* Properties of the continuity of check_wayback_history (SpecWayback).     *)

(* C29: when a sample matched, continuity is the number of matched samples  *)
(* dated at or after the first match over the number of all samples dated   *)
(* at or after it; the samples dated before the first match are in neither. *)
C29_ContinuityOverPostMatch ==
    (wb.pc = "done" /\ MatchedSamples # {}) =>
        /\ wb.continuity = <<Cardinality(MatchedSamples \cap PostMatchSamples),
                             Cardinality(PostMatchSamples)>>
        /\ wb.continuity[2] =
              Len(wb.samples)
              - Cardinality({k \in DOMAIN wb.samples :
                               \A m \in MatchedSamples :
                                   wb.samples[k].date < wb.samples[m].date})

C29_Witness ==
    /\ wb.pc = "done"
    /\ Len(wb.samples) = 3
    /\ ~wb.samples[1].matched
    /\ wb.samples[1].date < wb.samples[2].date
    /\ wb.samples[2].matched
    /\ ~wb.samples[3].matched
    /\ wb.continuity = <<1, 2>>

(* ------------------------------------------------------------------------ *)
(* Properties of _identity_score (specification SpecScore).                 *)

(* The business name has a letter or a digit, and the page holds the name   *)
(* as it is written, whatever the case.                                     *)
HasUsableName == \E i \in DOMAIN pf.arg.business_name :
                    pf.arg.business_name[i] \notin Punctuation \cup {" "}
PageHoldsExactName ==
    /\ pf.arg.business_name # <<>>
    /\ IsSubText(LowerText(pf.arg.business_name), LowerText(pf.arg.page_text))

(* C30: the score of _identity_score is within 0 .. 1, a page scores 0.7 or *)
(* more when the normalized name is in it, and every page that holds the    *)
(* exact business name scores 0.7 or more and is matched (score >= 0.65).   *)
C30_ExactNameScoresAsMatch ==
    (pf.pc = "done" /\ pf.f = "_identity_score" /\ HasUsableName) =>
        /\ pf.out.score >= 0
        /\ pf.out.score <= pf.out.unit
        /\ IsSubText(CleanedName(pf.arg.business_name), LowerText(pf.arg.page_text))
              => 100 * pf.out.score >= 70 * pf.out.unit
        /\ PageHoldsExactName =>
              /\ 100 * pf.out.score >= 70 * pf.out.unit
              /\ 100 * pf.out.score >= 65 * pf.out.unit

(* C31: _identity_score returns score 0 for every page that holds none of   *)
(* the words of the business name, and for every business name with no      *)
(* usable name, whatever the city is.                                       *)
C31_NoTokenScoresZero ==
    (/\ pf.pc = "done"
     /\ pf.f = "_identity_score"
     /\ \A i \in DOMAIN CleanedName(pf.arg.business_name) :
           \/ CleanedName(pf.arg.business_name)[i] = " "
           \/ ~HasWord(LowerText(pf.arg.page_text),
                       CleanedName(pf.arg.business_name)[i]))
        => pf.out.score = 0

(* ------------------------------------------------------------------------ *)
(* Further properties of the fan-out executor (specification Spec).         *)

Delayed == variant = "map" /\ delay_s # 0 /\ fpc # "init" /\ ~InvalidConcurrency
InBlock == {i \in Tasks : tpc[i] \in {"running", "sleeping"}}

(* C32: in map_with_limit with a non-zero delay, a worker call that         *)
(* completes is followed by the delay, the delay elapses before the item's  *)
(* permit is released, the items running or in their delay are never more   *)
(* than C, and the call returns only after the last item's delay.           *)
C32_DelayHoldsPermit ==
    /\ [](Delayed =>
            /\ Cardinality(InBlock) <= concurrency
            /\ Cardinality(InBlock) + semaphore = concurrency
            /\ fpc = "returned" => \A i \in Tasks : tpc[i] = "done")
    /\ [][Delayed =>
            \A i \in Tasks :
                /\ (tpc[i] = "running" /\ ops[i].kind = "value" /\ tpc'[i] # "running")
                     => (tpc'[i] = "sleeping" /\ semaphore' = semaphore
                         /\ waiters' = waiters)
                /\ (tpc[i] # "done" /\ tpc'[i] = "done") => tpc[i] = "sleeping"]_vars

(* An item is in its delay, holding the last permit, while another waits. *)
C32_Witness ==
    /\ Delayed
    /\ semaphore = 0
    /\ \E i, j \in Tasks : tpc[i] = "sleeping" /\ tpc[j] = "waiting"
    /\ \E i \in Tasks : tpc[i] = "done"

AllEnded == fpc # "init" /\ \A i \in Tasks : tpc[i] \in {"done", "failed"}

(* C33: in both variants each of the N result slots is written exactly      *)
(* once, by the task of the same index and only when that task's operation  *)
(* completes; no task writes another task's slot, and the slots are read    *)
(* (the list is returned) only after all tasks are done.                    *)
C33_EachSlotWrittenOnce ==
    /\ [](\A i \in Tasks : writes[i] \in {<<>>, <<i>>})
    /\ []((AllEnded /\ ~InvalidConcurrency) => \A i \in Tasks : writes[i] = <<i>>)
    /\ [][\A i \in Tasks :
             writes'[i] # writes[i] =>
                 /\ tpc[i] = "running" /\ tpc'[i] # "running"
                 /\ ops[i].kind = "value"
                 /\ \A j \in Tasks \ {i} : writes'[j] = writes[j] /\ results'[j] = results[j]]_vars
    /\ [][(fpc # "returned" /\ fpc' = "returned") =>
             \A i \in Tasks : tpc[i] = "done"]_vars

(* C33 (as the code does it): a slot is written at most once, by the task   *)
(* of the same index when its operation returns; exactly once for every     *)
(* task that ended normally and never for a task whose operation raised;    *)
(* no task writes another task's slot, and the list is returned only after  *)
(* all tasks are done.                                                      *)
C33_SlotWrittenAtMostOnce ==
    /\ [](\A i \in Tasks : writes[i] \in {<<>>, <<i>>})
    /\ [](\A i \in Tasks :
             /\ tpc[i] \in {"sleeping", "done"} => writes[i] = <<i>>
             /\ tpc[i] \in {"new", "waiting", "running", "failed"} => writes[i] = <<>>)
    /\ [][\A i \in Tasks :
             writes'[i] # writes[i] =>
                 /\ tpc[i] = "running" /\ tpc'[i] # "running"
                 /\ ops[i].kind = "value"
                 /\ \A j \in Tasks \ {i} : writes'[j] = writes[j] /\ results'[j] = results[j]]_vars
    /\ [][(fpc # "returned" /\ fpc' = "returned") =>
             \A i \in Tasks : tpc[i] = "done"]_vars

(* Three tasks have ended, two with their slot written and one, whose       *)
(* operation raised, with its slot never written.                           *)
C33_Witness ==
    /\ N = 3
    /\ AllEnded
    /\ writes = <<<<1>>, <<>>, <<3>>>>
    /\ tpc[2] = "failed"

(* ------------------------------------------------------------------------ *)
(* Further properties of check_wayback_history (specification SpecWayback). *)

WbReturnedNeutral ==
    /\ wb.out.kind = "returned"
    /\ wb.out.finding.is_error = FALSE
    /\ wb.out.finding.supports_eligibility = "None"

(* The lookup went through the loop over the sampled rows to its end. *)
WbLoopEnded ==
    wb.pc = "done" /\ wb.caught = "" /\ wb.index.kind = "list" /\ wb.index.n >= 1

(* C34: check_wayback_history returns a neutral Finding (is_error False,    *)
(* supports_eligibility None) when there is no URL, when the index answer   *)
(* has fewer than 1 row after its header, when no sampled snapshot is       *)
(* parseable and when no sampled snapshot matches; is_error is True only    *)
(* for an unparsable URL or a caught exception.                             *)
C34_NeutralFindings ==
    wb.pc = "done" =>
        /\ wb.url = <<>> => WbReturnedNeutral
        /\ (wb.index.kind \in {"object", "empty list"}
            \/ (wb.index.kind = "list" /\ wb.index.n < 1)) => WbReturnedNeutral
        /\ (WbLoopEnded /\ wb.samples = <<>>) => WbReturnedNeutral
        /\ (WbLoopEnded /\ \A i \in DOMAIN wb.samples : ~wb.samples[i].matched)
              => WbReturnedNeutral
        /\ (wb.out.kind = "returned" /\ wb.out.finding.is_error) =>
              \/ (wb.url # <<>> /\ DomainFromWebsite(wb.url) = <<>>)
              \/ wb.caught # ""

(* Two snapshots were scored, none matched, and the answer is neutral. *)
C34_Witness ==
    /\ WbLoopEnded
    /\ Len(wb.samples) = 2
    /\ \A i \in DOMAIN wb.samples : ~wb.samples[i].matched
    /\ wb.skipped = 1
    /\ WbReturnedNeutral

(* ------------------------------------------------------------------------ *)
(* Further properties of verify_candidate (specification SpecVerify).       *)

(* C35: the fan-out of verify_candidate runs the website fetch, two search  *)
(* probes and the archive lookup, so that a wayback_archive Finding is      *)
(* among the results collected for every candidate.                         *)
C35_ArchiveFindingCollected ==
    /\ fpc # "init" => \E i \in Tasks : ops[i].v = "wayback_archive"
    /\ fpc = "returned" => \E i \in DOMAIN fret.v : fret.v[i].source = "wayback_archive"

(* ------------------------------------------------------------------------ *)
(* Termination of the fan-out executor (specification SpecLive).            *)

(* C36: with C >= 1 and every operation completing, gather_with_limit and   *)
(* map_with_limit resolve for every N, no task stays waiting for the        *)
(* semaphore, and every permit that was acquired is released again, also    *)
(* when the operation that holds it raises.                                 *)
C36_ResolvesAndReleases ==
    /\ <>(concurrency < 1 \/ fpc \in {"returned", "raised"})
    /\ <>[](concurrency < 1
            \/ (/\ \A i \in Tasks : tpc[i] \in {"done", "failed"}
                /\ semaphore = concurrency
                /\ waiters = <<>>))

(* Three operations on one permit, the second raised: the call has raised,  *)
(* the third operation ran after it, and the permit is back.                *)
C36_Witness ==
    /\ N = 3
    /\ concurrency = 1
    /\ fpc = "raised"
    /\ tpc = <<"done", "failed", "done">>
    /\ semaphore = 1
    /\ waiters = <<>>

(* C37: in verify_candidate the reasoning collaborator is invoked at most   *)
(* once per candidate, and only after all four probes have completed and    *)
(* returned their Findings; when the probe fan-out raised it is not         *)
(* invoked at all.                                                          *)
C37_ReasoningAfterProbes ==
    /\ []((vpc = "llm" \/ reply # NoReply) =>
            /\ fpc = "returned"
            /\ \A i \in Tasks : tpc[i] = "done"
            /\ Len(fret.v) = 4
            /\ \A i \in 1 .. 4 : fret.v[i] = results[i])
    /\ [](fpc = "raised" => (vpc # "llm" /\ reply = NoReply))
    /\ [][/\ (vpc # "llm" /\ vpc' = "llm") => vpc = "fanout"
          /\ vpc # "fanout" => vpc' # "fanout"
          /\ reply # NoReply => reply' = reply]_vars

(* The collaborator has answered after the four probes returned, one of     *)
(* them out of turn.                                                        *)
C37_Witness ==
    /\ vpc = "done"
    /\ reply.kind # "none"
    /\ reply.kind # "raise"
    /\ fpc = "returned"
    /\ overtaken
    /\ Len(fret.v) = 4

(* ------------------------------------------------------------------------ *)
(* Further properties of _sample_wayback_rows (specification SpecSample).   *)

(* C38: of more than 8 rows (up to the 200 of the index) the sample has     *)
(* exactly 8 rows, taken at distinct, strictly increasing indexes that      *)
(* include 0, 1, 2 and the last one: the sample keeps the order of the rows. *)
C38_ExactlyEightInOrder ==
    (pf.pc = "done" /\ pf.f = "_sample_wayback_rows" /\ Len(pf.arg) > 8) =>
        /\ Len(pf.out) = 8
        /\ \A i \in 1 .. (Len(pf.out) - 1) : pf.out[i] < pf.out[i + 1]
        /\ \A i \in DOMAIN pf.out : pf.arg[pf.out[i] + 1] = pf.out[i]
        /\ \A k \in {0, 1, 2, Len(pf.arg) - 1} : \E i \in DOMAIN pf.out : pf.out[i] = k

C38_Witness ==
    /\ pf.pc = "done"
    /\ pf.f = "_sample_wayback_rows"
    /\ Len(pf.arg) = 200
    /\ pf.out = <<0, 1, 2, 28, 56, 84, 112, 199>>

(* C39: whenever check_wayback_history computes the continuity (a sample    *)
(* matched), the samples dated at or after the first match are not empty    *)
(* and the first match is one of them, so the continuity is above 0 and at  *)
(* most 1 and its division cannot be by zero.                               *)
C39_ContinuityWellDefined ==
    (wb.pc = "done" /\ MatchedSamples # {}) =>
        /\ PostMatchSamples # {}
        /\ Min(MatchedSamples) \in PostMatchSamples
        /\ wb.continuity[2] = Cardinality(PostMatchSamples)
        /\ wb.continuity[2] >= 1
        /\ wb.continuity[1] >= 1
        /\ wb.continuity[1] <= wb.continuity[2]
        /\ wb.caught = ""
        /\ wb.out.kind = "returned"
        /\ wb.out.finding.is_error = FALSE

(* The first match shares its date with a sample that did not match: both   *)
(* count, with a later miss, and the continuity is 1/3.                     *)
C39_Witness ==
    /\ wb.pc = "done"
    /\ Len(wb.samples) = 3
    /\ wb.samples[1].date = wb.samples[2].date
    /\ ~wb.samples[1].matched
    /\ wb.samples[2].matched
    /\ ~wb.samples[3].matched
    /\ wb.continuity = <<1, 3>>

====
